---- MODULE Spec2Model ----
(***************************************************************************)
(* A model of ploteria's configuration-to-script pipeline: the Figure      *)
(* builder (src/src/lib.rs), the axis registry (src/src/map.rs), the axis  *)
(* records (src/src/axis.rs, src/src/axis/grid.rs), the legend and grid    *)
(* records (src/src/key.rs, src/src/grid.rs) and series registration       *)
(* (src/src/curve.rs, errorbar.rs, filledcurve.rs, candlestick.rs).        *)
(*                                                                         *)
(* A script is a sequence of strings, one per push_str / push / format!    *)
(* of the source, followed by the bytes of the buffer, one string per      *)
(* byte.  Floats are integers here; "{}" of an integral f64 prints the     *)
(* integer.  Option<T> is a sequence of length 0 (None) or 1 (Some).       *)
(***************************************************************************)
EXTENDS Integers, Sequences, FiniteSets, TLC

VARIABLES fig,   \* the Figure
          out,   \* the buffer of the latest script() call, <<>> once the Figure was touched again
          call   \* the latest call on the Figure, with its arguments

vars == <<fig, out, call>>

-----------------------------------------------------------------------------
(* Bounds of the model *)

\* longest coordinate sequence handed to plot()
MaxRows == 3
\* most series registered on one Figure (compile pipeline)
MaxPlots == 3
\* most series registered on one Figure (registration specification)
MaxSeries == 1
\* most setter calls in one per-series configuration step
MaxChain == 1
\* largest scale factor of a record handed to insert (registry specification)
MaxFactor == 3
\* most words of a version line (version specification)
MaxWords == 7
\* most settings made on one Figure (configuration specification)
MaxSettings == 2

-----------------------------------------------------------------------------
(* Option<T> *)

None == <<>>
Some(v) == <<v>>
IsSome(o) == Len(o) = 1
Unwrap(o) == o[1]

(* helpers on sequences *)
RECURSIVE Flatten(_)
Flatten(ss) == IF ss = <<>> THEN <<>> ELSE Head(ss) \o Flatten(Tail(ss))

Count(s, x) == Cardinality({i \in 1..Len(s) : s[i] = x})
Min(a, b) == IF a <= b THEN a ELSE b

-----------------------------------------------------------------------------
(* enum Axis, enum Axes *)

Axis == {"BottomX", "LeftY", "RightY", "TopX"}

\* a faulty variant: the two Y axes in the other order
Axis_next_swapped(a) ==
    CASE a = "BottomX" -> Some("RightY")
      [] a = "RightY"  -> Some("LeftY")
      [] a = "LeftY"   -> Some("TopX")
      [] a = "TopX"    -> None

Axis_next(a) ==
    CASE a = "BottomX" -> Some("LeftY")
      [] a = "LeftY"   -> Some("RightY")
      [] a = "RightY"  -> Some("TopX")
      [] a = "TopX"    -> None

Axis_display(a) ==
    CASE a = "BottomX" -> "x"
      [] a = "LeftY"   -> "y"
      [] a = "RightY"  -> "y2"
      [] a = "TopX"    -> "x2"

Axes == {"BottomXLeftY", "BottomXRightY", "TopXLeftY", "TopXRightY"}

Axes_display(p) ==
    CASE p = "BottomXLeftY"  -> "x1y1"
      [] p = "BottomXRightY" -> "x1y2"
      [] p = "TopXLeftY"     -> "x2y1"
      [] p = "TopXRightY"    -> "x2y2"

-----------------------------------------------------------------------------
(* map::axis::Map<T>: four slots, indexed by the key *)

Map_new == [a \in Axis |-> None]
Map_contains_key(map, key) == IsSome(map[key])
Map_get(map, key) == map[key]

\* a faulty variant: an occupied slot keeps its value
Map_insert_if_absent(map, key, value) ==
    [old |-> map[key],
     map |-> IF IsSome(map[key]) THEN map ELSE [map EXCEPT ![key] = Some(value)]]

\* insert returns the old slot and the new map
Map_insert(map, key, value) ==
    [old |-> map[key], map |-> [map EXCEPT ![key] = Some(value)]]

\* Items::next, run to exhaustion from iterator state `state`: the keys yielded
RECURSIVE Items_collect(_, _)
Items_collect(map, state) ==
    IF ~IsSome(state) THEN <<>>
    ELSE LET key == Unwrap(state)
             rest == Items_collect(map, Axis_next(key))
         IN  IF IsSome(Map_get(map, key)) THEN <<key>> \o rest ELSE rest

Map_iter(map) == Items_collect(map, Some("BottomX"))

-----------------------------------------------------------------------------
(* axis::Gridline *)

Gridline_new(is_minor) == [is_minor |-> is_minor, hidden |-> TRUE]
Gridline_hide(g) == [g EXCEPT !.hidden = TRUE]
Gridline_show(g) == [g EXCEPT !.hidden = FALSE]

\* the closure handed to configure_major_grid / configure_minor_grid, as the
\* Gridline it leaves behind the reference it was given. hide and show take
\* self by value and Gridline is Copy: a closure that calls them on the
\* reference, |g| { g.show(); g }, changes a copy and leaves the record as it
\* was; only a closure that stores the result, |g| { *g = g.show(); g },
\* changes the record.
Gridline_configure(g, gstep) ==
    CASE gstep = "show" -> LET copy == Gridline_show(g) IN g
      [] gstep = "hide" -> LET copy == Gridline_hide(g) IN g
      [] gstep = "store_show" -> Gridline_show(g)
      [] gstep = "store_hide" -> Gridline_hide(g)

Gridline_script(axis, g) ==
    LET grid == IF g.is_minor THEN "m" ELSE ""
    IN  IF g.hidden THEN <<>>
        ELSE <<"set grid " \o grid \o Axis_display(axis) \o "tics\n">>

-----------------------------------------------------------------------------
(* axis::AxisProperties *)

AxisProperties_default ==
    [major_grid |-> Gridline_new(FALSE), minor_grid |-> Gridline_new(TRUE),
     hidden |-> FALSE, label |-> None, logarithmic |-> FALSE, range |-> None,
     scale_factor |-> 1, tics |-> None]

AxisProperties_hide(p) == [p EXCEPT !.hidden = TRUE]
AxisProperties_show(p) == [p EXCEPT !.hidden = FALSE]
AxisProperties_label(p, label) == [p EXCEPT !.label = Some(label)]

AxisProperties_range(p, range) ==
    [p EXCEPT !.hidden = FALSE,
              !.range = IF range.kind = "Auto" THEN None
                        ELSE Some(<<range.low, range.high>>)]

AxisProperties_scale(p, scale) ==
    [p EXCEPT !.hidden = FALSE, !.logarithmic = (scale = "Logarithmic")]

AxisProperties_scale_factor(p, factor) == [p EXCEPT !.scale_factor = factor]

\* positions.zip(labels), each pair formatted "'{label}' {pos}", joined by ", "
RECURSIVE TicPairs(_, _)
TicPairs(positions, labels) ==
    IF positions = <<>> \/ labels = <<>> THEN <<>>
    ELSE <<"'" \o Head(labels) \o "' " \o ToString(Head(positions))>>
         \o TicPairs(Tail(positions), Tail(labels))

RECURSIVE Join(_, _)
Join(strs, sep) ==
    IF Len(strs) = 1 THEN strs[1] ELSE strs[1] \o sep \o Join(Tail(strs), sep)

AxisProperties_tick_labels(p, tics) ==
    LET pairs == TicPairs(tics.positions, tics.labels)
    IN  [p EXCEPT !.tics = IF pairs = <<>> THEN None ELSE Some(Join(pairs, ", "))]

AxisProperties_configure_major_grid(p, gstep) ==
    [p EXCEPT !.major_grid = Gridline_configure(p.major_grid, gstep)]

AxisProperties_configure_minor_grid(p, gstep) ==
    [p EXCEPT !.minor_grid = Gridline_configure(p.minor_grid, gstep)]

\* one setter call of a configure_axis closure, applied to the record
AxisStep(p, step) ==
    CASE step.op = "hide"  -> AxisProperties_hide(p)
      [] step.op = "show"  -> AxisProperties_show(p)
      [] step.op = "label" -> AxisProperties_label(p, step.label)
      [] step.op = "range" -> AxisProperties_range(p, step.range)
      [] step.op = "scale" -> AxisProperties_scale(p, step.scale)
      [] step.op = "scale_factor" -> AxisProperties_scale_factor(p, step.factor)
      [] step.op = "tick_labels"  -> AxisProperties_tick_labels(p, step.tics)
      [] step.op = "configure_major_grid" ->
             AxisProperties_configure_major_grid(p, step.gstep)
      [] step.op = "configure_minor_grid" ->
             AxisProperties_configure_minor_grid(p, step.gstep)

\* a faulty variant: hidden does not return early, the label follows the unset directive
AxisProperties_script_no_return(axis, properties) ==
    LET axis_ == Axis_display(axis)
    IN  (IF properties.hidden THEN <<"unset " \o axis_ \o "tics\n">>
         ELSE <<"set " \o axis_ \o "tics nomirror ", "\n">>)
        \o (IF IsSome(properties.label)
            THEN <<"set " \o axis_ \o "label '" \o Unwrap(properties.label) \o "'\n">>
            ELSE <<>>)

\* a faulty variant: the gridlines are written before the label
AxisProperties_script_grid_first(axis, properties) ==
    LET axis_ == Axis_display(axis)
    IN  IF properties.hidden THEN <<"unset " \o axis_ \o "tics\n">>
        ELSE <<"set " \o axis_ \o "tics nomirror ">>
             \o (IF IsSome(properties.tics)
                 THEN <<"(" \o Unwrap(properties.tics) \o ")">> ELSE <<>>)
             \o <<"\n">>
             \o Gridline_script(axis, properties.major_grid)
             \o Gridline_script(axis, properties.minor_grid)
             \o (IF IsSome(properties.label)
                 THEN <<"set " \o axis_ \o "label '" \o Unwrap(properties.label) \o "'\n">>
                 ELSE <<>>)
             \o (IF IsSome(properties.range)
                 THEN <<"set " \o axis_ \o "range ["
                        \o ToString(Unwrap(properties.range)[1]) \o ":"
                        \o ToString(Unwrap(properties.range)[2]) \o "]\n">>
                 ELSE <<>>)
             \o (IF properties.logarithmic
                 THEN <<"set logscale " \o axis_ \o "\n">> ELSE <<>>)

\* impl Script for (Axis, &AxisProperties)
AxisProperties_script(axis, properties) ==
    LET axis_ == Axis_display(axis)
    IN  IF properties.hidden THEN <<"unset " \o axis_ \o "tics\n">>
        ELSE <<"set " \o axis_ \o "tics nomirror ">>
             \o (IF IsSome(properties.tics)
                 THEN <<"(" \o Unwrap(properties.tics) \o ")">> ELSE <<>>)
             \o <<"\n">>
             \o (IF IsSome(properties.label)
                 THEN <<"set " \o axis_ \o "label '" \o Unwrap(properties.label) \o "'\n">>
                 ELSE <<>>)
             \o (IF IsSome(properties.range)
                 THEN <<"set " \o axis_ \o "range ["
                        \o ToString(Unwrap(properties.range)[1]) \o ":"
                        \o ToString(Unwrap(properties.range)[2]) \o "]\n">>
                 ELSE <<>>)
             \o (IF properties.logarithmic
                 THEN <<"set logscale " \o axis_ \o "\n">> ELSE <<>>)
             \o Gridline_script(axis, properties.major_grid)
             \o Gridline_script(axis, properties.minor_grid)

ScaleFactorTrait_scale_factor(props) == props.scale_factor

-----------------------------------------------------------------------------
(* Display of the enums whose tables live in display.rs: the variant's     *)
(* gnuplot spelling, one distinct string per variant                       *)

Color_display(c) == c
LineType_display(lt) == lt
PointType_display(pt) == pt
Terminal_display(t) == "svg"

-----------------------------------------------------------------------------
(* key::KeyProperties *)

KeyProperties_default ==
    [boxed |-> FALSE, hidden |-> FALSE, justification |-> None, order |-> None,
     position |-> None, stacked |-> None, title |-> None]

KeyProperties_hide(k) == [k EXCEPT !.hidden = TRUE]
KeyProperties_show(k) == [k EXCEPT !.hidden = FALSE]
KeyProperties_boxed(k, boxed) == [k EXCEPT !.boxed = (boxed = "Yes")]
KeyProperties_justification(k, j) == [k EXCEPT !.justification = Some(j)]
KeyProperties_order(k, o) == [k EXCEPT !.order = Some(o)]
KeyProperties_position(k, pos) == [k EXCEPT !.position = Some(pos)]
KeyProperties_stacked(k, st) == [k EXCEPT !.stacked = Some(st)]
KeyProperties_title(k, title) == [k EXCEPT !.title = Some(title)]

KeyStep(k, step) ==
    CASE step.op = "hide" -> KeyProperties_hide(k)
      [] step.op = "show" -> KeyProperties_show(k)
      [] step.op = "boxed" -> KeyProperties_boxed(k, step.boxed)
      [] step.op = "justification" -> KeyProperties_justification(k, step.justification)
      [] step.op = "order" -> KeyProperties_order(k, step.order)
      [] step.op = "position" -> KeyProperties_position(k, step.position)
      [] step.op = "stacked" -> KeyProperties_stacked(k, step.stacked)
      [] step.op = "title" -> KeyProperties_title(k, step.title)

Horizontal_display(h) ==
    CASE h = "Center" -> "center" [] h = "Left" -> "left" [] h = "Right" -> "right"
Vertical_display(v) ==
    CASE v = "Bottom" -> "bottom" [] v = "Center" -> "center" [] v = "Top" -> "top"
Justification_display(j) == CASE j = "Left" -> "Left" [] j = "Right" -> "Right"
Order_display(o) == CASE o = "TextSample" -> "noreverse" [] o = "SampleText" -> "reverse"
Stacked_display(st) ==
    CASE st = "Horizontally" -> "horizontal" [] st = "Vertically" -> "vertical"

\* a faulty variant: the box clause is written right after "set key on "
KeyProperties_script_box_first(k) ==
    IF k.hidden THEN <<"set key off\n">>
    ELSE <<"set key on ">>
         \o (IF k.boxed THEN <<"box ">> ELSE <<>>)
         \o (IF ~IsSome(k.position) THEN <<>>
             ELSE LET pos == Unwrap(k.position)
                  IN  <<(IF pos.kind = "Inside" THEN "inside " ELSE "outside ")
                        \o Vertical_display(pos.v) \o " "
                        \o Horizontal_display(pos.h) \o " ">>)
         \o (IF IsSome(k.stacked) THEN <<Stacked_display(Unwrap(k.stacked)), " ">> ELSE <<>>)
         \o (IF IsSome(k.justification)
             THEN <<Justification_display(Unwrap(k.justification)), " ">> ELSE <<>>)
         \o (IF IsSome(k.order) THEN <<Order_display(Unwrap(k.order)), " ">> ELSE <<>>)
         \o (IF IsSome(k.title) THEN <<"title '" \o Unwrap(k.title) \o "' ">> ELSE <<>>)
         \o <<"\n">>

\* impl Script for KeyProperties
KeyProperties_script(k) ==
    IF k.hidden THEN <<"set key off\n">>
    ELSE <<"set key on ">>
         \o (IF ~IsSome(k.position) THEN <<>>
             ELSE LET pos == Unwrap(k.position)
                  IN  <<(IF pos.kind = "Inside" THEN "inside " ELSE "outside ")
                        \o Vertical_display(pos.v) \o " "
                        \o Horizontal_display(pos.h) \o " ">>)
         \o (IF IsSome(k.stacked) THEN <<Stacked_display(Unwrap(k.stacked)), " ">> ELSE <<>>)
         \o (IF IsSome(k.justification)
             THEN <<Justification_display(Unwrap(k.justification)), " ">> ELSE <<>>)
         \o (IF IsSome(k.order) THEN <<Order_display(Unwrap(k.order)), " ">> ELSE <<>>)
         \o (IF IsSome(k.title) THEN <<"title '" \o Unwrap(k.title) \o "' ">> ELSE <<>>)
         \o (IF k.boxed THEN <<"box ">> ELSE <<>>)
         \o <<"\n">>

-----------------------------------------------------------------------------
(* grid::GridStyle, grid::GridOptions *)

GridStyle_empty == [line_width |-> None, color |-> None, line_type |-> None]
GridOptions_default ==
    [layer |-> None, major_style |-> GridStyle_empty, minor_style |-> GridStyle_empty]

GridStyle_line_width(g, width) == [g EXCEPT !.line_width = Some(width)]
GridStyle_color(g, color) == [g EXCEPT !.color = Some(color)]
GridStyle_line_type(g, lt) == [g EXCEPT !.line_type = Some(lt)]

GridStyleStep(g, step) ==
    CASE step.op = "line_width" -> GridStyle_line_width(g, step.width)
      [] step.op = "color" -> GridStyle_color(g, step.color)
      [] step.op = "line_type" -> GridStyle_line_type(g, step.line_type)

GridOptions_layer(g, layer) == [g EXCEPT !.layer = Some(layer)]
GridOptions_configure_major(g, step) ==
    [g EXCEPT !.major_style = GridStyleStep(g.major_style, step)]
GridOptions_configure_minor(g, step) ==
    [g EXCEPT !.minor_style = GridStyleStep(g.minor_style, step)]

GridStep(g, step) ==
    CASE step.op = "layer" -> GridOptions_layer(g, step.layer)
      [] step.op = "configure_major" -> GridOptions_configure_major(g, step.step)
      [] step.op = "configure_minor" -> GridOptions_configure_minor(g, step.step)

GridLayer_display(l) ==
    CASE l = "Default" -> "layerdefault" [] l = "Front" -> "front" [] l = "Back" -> "back"

\* impl Script for &GridStyle: one string, built by push_str
GridStyle_script(g) ==
    (IF IsSome(g.line_width) THEN "lw " \o ToString(Unwrap(g.line_width)) \o " " ELSE "")
    \o (IF IsSome(g.color) THEN "lc rgb '" \o Color_display(Unwrap(g.color)) \o "' " ELSE "")
    \o (IF IsSome(g.line_type)
        THEN "lt " \o LineType_display(Unwrap(g.line_type)) \o " " ELSE "")

\* impl Script for &GridOptions
GridOptions_script(g) ==
    <<"set grid ">>
    \o (IF IsSome(g.layer) THEN <<GridLayer_display(Unwrap(g.layer)) \o " ">> ELSE <<>>)
    \o <<GridStyle_script(g.major_style) \o ",">>
    \o <<GridStyle_script(g.minor_style) \o "\n">>

-----------------------------------------------------------------------------
(* data::Matrix: nrows x ncols cells, row-major, each column scaled once at *)
(* construction; bytes() is the buffer as 8-byte little-endian floats       *)

BytesPerF64 == 8

RECURSIVE MinLen(_)
MinLen(cols) ==
    IF Len(cols) = 1 THEN Len(cols[1]) ELSE Min(Len(cols[1]), MinLen(Tail(cols)))

\* izip!(c1, .., cK) stops at the shortest sequence; row r is cell r of every column
Matrix_new(cols, factors) ==
    LET ncols == Len(cols)
        nrows == MinLen(cols)
    IN  [nrows |-> nrows, ncols |-> ncols,
         data  |-> [i \in 1..(nrows * ncols) |->
                      LET r == ((i - 1) \div ncols) + 1
                          c == ((i - 1) % ncols) + 1
                      IN  cols[c][r] * factors[c]]]

Matrix_nrows(m) == m.nrows
Matrix_ncols(m) == m.ncols

\* byte k of the float v
F64Byte(v, k) == "f64(" \o ToString(v) \o ")[" \o ToString(k) \o "]"

Matrix_bytes(m) ==
    [i \in 1..(Len(m.data) * BytesPerF64) |->
        F64Byte(m.data[((i - 1) \div BytesPerF64) + 1], (i - 1) % BytesPerF64)]

-----------------------------------------------------------------------------
(* The "title '<label>'" / "notitle" tail shared by the style fragments *)

TitleClause(label) ==
    IF IsSome(label) THEN <<"title '", Unwrap(label), "'">> ELSE <<"notitle">>

-----------------------------------------------------------------------------
(* curve::Properties *)

CurveStyle_display(style) ==
    CASE style = "Dots" -> "dots" [] style = "Impulses" -> "impulses"
      [] style = "Lines" -> "lines" [] style = "LinesPoints" -> "linespoints"
      [] style = "Points" -> "points" [] style = "Steps" -> "steps"

CurveProperties_from_style(style) ==
    [label |-> None, line_width |-> None, color |-> None, line_type |-> "Solid",
     style |-> style, axes |-> None, point_size |-> None, point_type |-> None]

\* a setter returns [ok, p]: ok is FALSE when its assert! fails (the call panics)
CurveStep(p, step) ==
    CASE step.op = "axes" -> [ok |-> TRUE, p |-> [p EXCEPT !.axes = Some(step.axes)]]
      [] step.op = "color" -> [ok |-> TRUE, p |-> [p EXCEPT !.color = Some(step.color)]]
      [] step.op = "label" -> [ok |-> TRUE, p |-> [p EXCEPT !.label = Some(step.label)]]
      [] step.op = "line_type" ->
             [ok |-> TRUE, p |-> [p EXCEPT !.line_type = step.line_type]]
      [] step.op = "line_width" ->
             IF step.lw > 0 THEN [ok |-> TRUE, p |-> [p EXCEPT !.line_width = Some(step.lw)]]
             ELSE [ok |-> FALSE, p |-> p]
      [] step.op = "point_size" ->
             IF step.ps > 0 THEN [ok |-> TRUE, p |-> [p EXCEPT !.point_size = Some(step.ps)]]
             ELSE [ok |-> FALSE, p |-> p]
      [] step.op = "point_type" ->
             [ok |-> TRUE, p |-> [p EXCEPT !.point_type = Some(step.point_type)]]

\* the configure closure: its setter calls in order, stopping at the first panic
RECURSIVE CurveConfigure(_, _)
CurveConfigure(p, chain) ==
    IF chain = <<>> THEN [ok |-> TRUE, p |-> p]
    ELSE LET r == CurveStep(p, Head(chain))
         IN  IF r.ok THEN CurveConfigure(r.p, Tail(chain)) ELSE r

\* a faulty variant: the axes clause follows the plot kind
CurveProperties_script_axes_second(p) ==
    <<"with " \o CurveStyle_display(p.style) \o " ">>
    \o (IF IsSome(p.axes) THEN <<"axes " \o Axes_display(Unwrap(p.axes)) \o " ">> ELSE <<>>)
    \o <<"lt " \o LineType_display(p.line_type) \o " ">>
    \o (IF IsSome(p.line_width)
        THEN <<"lw " \o ToString(Unwrap(p.line_width)) \o " ">> ELSE <<>>)
    \o (IF IsSome(p.color)
        THEN <<"lc rgb '" \o Color_display(Unwrap(p.color)) \o "' ">> ELSE <<>>)
    \o (IF IsSome(p.point_type)
        THEN <<"pt " \o PointType_display(Unwrap(p.point_type)) \o " ">> ELSE <<>>)
    \o (IF IsSome(p.point_size)
        THEN <<"ps " \o ToString(Unwrap(p.point_size)) \o " ">> ELSE <<>>)
    \o TitleClause(p.label)

\* impl Script for curve::Properties
CurveProperties_script(p) ==
    (IF IsSome(p.axes) THEN <<"axes " \o Axes_display(Unwrap(p.axes)) \o " ">> ELSE <<>>)
    \o <<"with " \o CurveStyle_display(p.style) \o " ">>
    \o <<"lt " \o LineType_display(p.line_type) \o " ">>
    \o (IF IsSome(p.line_width)
        THEN <<"lw " \o ToString(Unwrap(p.line_width)) \o " ">> ELSE <<>>)
    \o (IF IsSome(p.color)
        THEN <<"lc rgb '" \o Color_display(Unwrap(p.color)) \o "' ">> ELSE <<>>)
    \o (IF IsSome(p.point_type)
        THEN <<"pt " \o PointType_display(Unwrap(p.point_type)) \o " ">> ELSE <<>>)
    \o (IF IsSome(p.point_size)
        THEN <<"ps " \o ToString(Unwrap(p.point_size)) \o " ">> ELSE <<>>)
    \o TitleClause(p.label)

-----------------------------------------------------------------------------
(* errorbar::Properties *)

ErrorBarStyle_display(style) ==
    CASE style = "XErrorBars" -> "xerrorbars" [] style = "XErrorLines" -> "xerrorlines"
      [] style = "YErrorBars" -> "yerrorbars" [] style = "YErrorLines" -> "yerrorlines"

ErrorBarProperties_default(style) ==
    [label |-> None, color |-> None, line_type |-> "Solid", style |-> style,
     point_size |-> None, point_type |-> None, linewidth |-> None]

ErrorBarStep(p, step) ==
    CASE step.op = "color" -> [ok |-> TRUE, p |-> [p EXCEPT !.color = Some(step.color)]]
      [] step.op = "label" -> [ok |-> TRUE, p |-> [p EXCEPT !.label = Some(step.label)]]
      [] step.op = "line_type" ->
             [ok |-> TRUE, p |-> [p EXCEPT !.line_type = step.line_type]]
      [] step.op = "line_width" ->
             IF step.lw > 0 THEN [ok |-> TRUE, p |-> [p EXCEPT !.linewidth = Some(step.lw)]]
             ELSE [ok |-> FALSE, p |-> p]
      [] step.op = "point_size" ->
             IF step.ps > 0 THEN [ok |-> TRUE, p |-> [p EXCEPT !.point_size = Some(step.ps)]]
             ELSE [ok |-> FALSE, p |-> p]
      [] step.op = "point_type" ->
             [ok |-> TRUE, p |-> [p EXCEPT !.point_type = Some(step.point_type)]]

RECURSIVE ErrorBarConfigure(_, _)
ErrorBarConfigure(p, chain) ==
    IF chain = <<>> THEN [ok |-> TRUE, p |-> p]
    ELSE LET r == ErrorBarStep(p, Head(chain))
         IN  IF r.ok THEN ErrorBarConfigure(r.p, Tail(chain)) ELSE r

ErrorBarProperties_script(p) ==
    <<"with " \o ErrorBarStyle_display(p.style) \o " ">>
    \o <<"lt " \o LineType_display(p.line_type) \o " ">>
    \o (IF IsSome(p.linewidth)
        THEN <<"lw " \o ToString(Unwrap(p.linewidth)) \o " ">> ELSE <<>>)
    \o (IF IsSome(p.color)
        THEN <<"lc rgb '" \o Color_display(Unwrap(p.color)) \o "' ">> ELSE <<>>)
    \o (IF IsSome(p.point_type)
        THEN <<"pt " \o PointType_display(Unwrap(p.point_type)) \o " ">> ELSE <<>>)
    \o (IF IsSome(p.point_size)
        THEN <<"ps " \o ToString(Unwrap(p.point_size)) \o " ">> ELSE <<>>)
    \o TitleClause(p.label)

-----------------------------------------------------------------------------
(* filledcurve::Properties *)

FilledCurveProperties_default ==
    [label |-> None, color |-> None, axes |-> None, opacity |-> None]

FilledCurveStep(p, step) ==
    CASE step.op = "axes" -> [ok |-> TRUE, p |-> [p EXCEPT !.axes = Some(step.axes)]]
      [] step.op = "color" -> [ok |-> TRUE, p |-> [p EXCEPT !.color = Some(step.color)]]
      [] step.op = "label" -> [ok |-> TRUE, p |-> [p EXCEPT !.label = Some(step.label)]]
      [] step.op = "opacity" ->
             [ok |-> TRUE, p |-> [p EXCEPT !.opacity = Some(step.opacity)]]

RECURSIVE FilledCurveConfigure(_, _)
FilledCurveConfigure(p, chain) ==
    IF chain = <<>> THEN [ok |-> TRUE, p |-> p]
    ELSE LET r == FilledCurveStep(p, Head(chain))
         IN  IF r.ok THEN FilledCurveConfigure(r.p, Tail(chain)) ELSE r

FilledCurveProperties_script(p) ==
    (IF IsSome(p.axes) THEN <<"axes " \o Axes_display(Unwrap(p.axes)) \o " ">> ELSE <<>>)
    \o <<"with filledcurves ">>
    \o <<"fillstyle ">>
    \o (IF IsSome(p.opacity)
        THEN <<"solid " \o ToString(Unwrap(p.opacity)) \o " ">> ELSE <<>>)
    \o <<"noborder ">>
    \o (IF IsSome(p.color)
        THEN <<"lc rgb '" \o Color_display(Unwrap(p.color)) \o "' ">> ELSE <<>>)
    \o TitleClause(p.label)

-----------------------------------------------------------------------------
(* candlestick::Properties *)

CandlestickProperties_default ==
    [label |-> None, line_width |-> None, color |-> None, line_type |-> "Solid"]

CandlestickStep(p, step) ==
    CASE step.op = "color" -> [ok |-> TRUE, p |-> [p EXCEPT !.color = Some(step.color)]]
      [] step.op = "label" -> [ok |-> TRUE, p |-> [p EXCEPT !.label = Some(step.label)]]
      [] step.op = "line_type" ->
             [ok |-> TRUE, p |-> [p EXCEPT !.line_type = step.line_type]]
      [] step.op = "line_width" ->
             [ok |-> TRUE, p |-> [p EXCEPT !.line_width = Some(step.lw)]]

RECURSIVE CandlestickConfigure(_, _)
CandlestickConfigure(p, chain) ==
    IF chain = <<>> THEN [ok |-> TRUE, p |-> p]
    ELSE LET r == CandlestickStep(p, Head(chain))
         IN  IF r.ok THEN CandlestickConfigure(r.p, Tail(chain)) ELSE r

CandlestickProperties_script(p) ==
    <<"with candlesticks ">>
    \o <<"lt " \o LineType_display(p.line_type) \o " ">>
    \o (IF IsSome(p.line_width)
        THEN <<"lw " \o ToString(Unwrap(p.line_width)) \o " ">> ELSE <<>>)
    \o (IF IsSome(p.color)
        THEN <<"lc rgb '" \o Color_display(Unwrap(p.color)) \o "' ">> ELSE <<>>)
    \o TitleClause(p.label)

-----------------------------------------------------------------------------
(* struct Plot, struct Figure *)

Plot_new(data, script) == [data |-> data, script |-> script]
Plot_data(plot) == plot.data
Plot_script(plot) == plot.script

Figure_new ==
    [alpha |-> None, axes |-> Map_new, box_width |-> None, font |-> None,
     font_size |-> None, key |-> None, output |-> "output.plot", plots |-> <<>>,
     size |-> None, terminal |-> "Svg", tics |-> Map_new, title |-> None,
     grid |-> None]

\* a call returns [ok, fig]: ok is FALSE when the call panics, and fig is then
\* the Figure as the call found it
Ok(f) == [ok |-> TRUE, fig |-> f]
Panic(f) == [ok |-> FALSE, fig |-> f]

\* a faulty variant: the width is stored unchecked
Figure_box_width_unchecked(f, width) == Ok([f EXCEPT !.box_width = Some(width)])

Figure_box_width(f, width) ==
    IF width >= 0 THEN Ok([f EXCEPT !.box_width = Some(width)]) ELSE Panic(f)
Figure_font(f, font) == Ok([f EXCEPT !.font = Some(font)])
Figure_font_size(f, size) ==
    IF size >= 0 THEN Ok([f EXCEPT !.font_size = Some(size)]) ELSE Panic(f)
Figure_output(f, output) == Ok([f EXCEPT !.output = output])
Figure_figure_size(f, width, height) == Ok([f EXCEPT !.size = Some(<<width, height>>)])
Figure_terminal(f, terminal) == Ok([f EXCEPT !.terminal = terminal])
Figure_title(f, title) == Ok([f EXCEPT !.title = Some(title)])

\* a faulty variant: every call starts again from the defaults
Figure_configure_axis_fresh(f, axis, step) ==
    Ok([f EXCEPT !.axes = Map_insert(f.axes, axis, AxisStep(AxisProperties_default, step)).map])

Figure_configure_axis(f, axis, step) ==
    IF Map_contains_key(f.axes, axis)
    THEN Ok([f EXCEPT !.axes[axis] = Some(AxisStep(Unwrap(Map_get(f.axes, axis)), step))])
    ELSE Ok([f EXCEPT !.axes =
                Map_insert(f.axes, axis, AxisStep(AxisProperties_default, step)).map])

Figure_configure_key(f, step) ==
    IF IsSome(f.key) THEN Ok([f EXCEPT !.key = Some(KeyStep(Unwrap(f.key), step))])
    ELSE Ok([f EXCEPT !.key = Some(KeyStep(KeyProperties_default, step))])

Figure_configure_grid(f, step) ==
    IF IsSome(f.grid) THEN Ok([f EXCEPT !.grid = Some(GridStep(Unwrap(f.grid), step))])
    ELSE Ok([f EXCEPT !.grid = Some(GridStep(GridOptions_default, step))])

\* fn scale_factor(map, axes) -> (f64, f64)
ScaleOr1(map, axis) ==
    IF IsSome(Map_get(map, axis))
    THEN ScaleFactorTrait_scale_factor(Unwrap(Map_get(map, axis))) ELSE 1

scale_factor(map, axes) ==
    CASE axes = "BottomXLeftY"  -> <<ScaleOr1(map, "BottomX"), ScaleOr1(map, "LeftY")>>
      [] axes = "BottomXRightY" -> <<ScaleOr1(map, "BottomX"), ScaleOr1(map, "RightY")>>
      [] axes = "TopXLeftY"     -> <<ScaleOr1(map, "TopX"), ScaleOr1(map, "LeftY")>>
      [] axes = "TopXRightY"    -> <<ScaleOr1(map, "TopX"), ScaleOr1(map, "RightY")>>

-----------------------------------------------------------------------------
(* Series registration: impl Plot<..> for Figure *)

\* a faulty variant: the two sequences are zipped in the other order
Figure_plot_curve_yx(f, style, curve, chain) ==
    LET props == CurveProperties_from_style(style)
        configured == CurveConfigure(props, chain)
        factors == scale_factor(f.axes,
                       IF IsSome(props.axes) THEN Unwrap(props.axes) ELSE "BottomXLeftY")
        data == Matrix_new(<<curve.y, curve.x>>, <<factors[1], factors[2]>>)
    IN  IF ~configured.ok THEN Panic(f)
        ELSE Ok([f EXCEPT !.plots =
                    Append(f.plots, Plot_new(data, CurveProperties_script(props)))])

\* a faulty variant: sequences of unequal lengths are rejected
Figure_plot_curve_equal_lengths(f, style, curve, chain) ==
    LET props == CurveProperties_from_style(style)
        factors == scale_factor(f.axes, "BottomXLeftY")
        data == Matrix_new(<<curve.x, curve.y>>, <<factors[1], factors[2]>>)
    IN  IF Len(curve.x) # Len(curve.y) THEN Panic(f)
        ELSE Ok([f EXCEPT !.plots =
                    Append(f.plots, Plot_new(data, CurveProperties_script(props)))])

\* curve.rs: the closure is run on a clone and its result dropped
Figure_plot_curve(f, style, curve, chain) ==
    LET props == CurveProperties_from_style(style)
        configured == CurveConfigure(props, chain)
        factors == scale_factor(f.axes,
                       IF IsSome(props.axes) THEN Unwrap(props.axes) ELSE "BottomXLeftY")
        data == Matrix_new(<<curve.x, curve.y>>, <<factors[1], factors[2]>>)
    IN  IF ~configured.ok THEN Panic(f)
        ELSE Ok([f EXCEPT !.plots =
                    Append(f.plots, Plot_new(data, CurveProperties_script(props)))])

\* a faulty variant: the new series takes the place of the registered ones
Figure_plot_errorbar_replacing(f, style, e, chain) ==
    LET factors == scale_factor(f.axes, "BottomXLeftY")
        data == Matrix_new(<<e.x, e.y, e.low, e.high>>,
                           <<factors[1], factors[2], factors[2], factors[2]>>)
        configured == ErrorBarConfigure(ErrorBarProperties_default(style), chain)
    IN  IF ~configured.ok THEN Panic(f)
        ELSE Ok([f EXCEPT !.plots =
                    <<Plot_new(data, ErrorBarProperties_script(configured.p))>>])

\* a faulty variant: the error columns always take the Y factor
Figure_plot_errorbar_y_factor(f, style, e, chain) ==
    LET factors == scale_factor(f.axes, "BottomXLeftY")
        data == Matrix_new(<<e.x, e.y, e.low, e.high>>,
                           <<factors[1], factors[2], factors[2], factors[2]>>)
        configured == ErrorBarConfigure(ErrorBarProperties_default(style), chain)
    IN  IF ~configured.ok THEN Panic(f)
        ELSE Ok([f EXCEPT !.plots =
                    Append(f.plots, Plot_new(data, ErrorBarProperties_script(configured.p)))])

\* errorbar.rs
Figure_plot_errorbar(f, style, e, chain) ==
    LET factors == scale_factor(f.axes, "BottomXLeftY")
        x_factor == factors[1]
        y_factor == factors[2]
        e_factor == IF style \in {"XErrorBars", "XErrorLines"} THEN x_factor ELSE y_factor
        data == Matrix_new(<<e.x, e.y, e.low, e.high>>,
                           <<x_factor, y_factor, e_factor, e_factor>>)
        configured == ErrorBarConfigure(ErrorBarProperties_default(style), chain)
    IN  IF ~configured.ok THEN Panic(f)
        ELSE Ok([f EXCEPT !.plots =
                    Append(f.plots, Plot_new(data, ErrorBarProperties_script(configured.p)))])

\* filledcurve.rs: the closure is run on a clone and its result dropped
Figure_plot_filledcurve(f, fc, chain) ==
    LET props == FilledCurveProperties_default
        configured == FilledCurveConfigure(props, chain)
        factors == scale_factor(f.axes,
                       IF IsSome(props.axes) THEN Unwrap(props.axes) ELSE "BottomXLeftY")
        data == Matrix_new(<<fc.x, fc.y1, fc.y2>>, <<factors[1], factors[2], factors[2]>>)
    IN  IF ~configured.ok THEN Panic(f)
        ELSE Ok([f EXCEPT !.plots =
                    Append(f.plots, Plot_new(data, FilledCurveProperties_script(props)))])

\* candlestick.rs
Figure_plot_candlesticks(f, c, chain) ==
    LET factors == scale_factor(f.axes, "BottomXLeftY")
        x_factor == factors[1]
        y_factor == factors[2]
        data == Matrix_new(<<c.x, c.box_min, c.whisker_min, c.whisker_high, c.box_high>>,
                           <<x_factor, y_factor, y_factor, y_factor, y_factor>>)
        configured == CandlestickConfigure(CandlestickProperties_default, chain)
    IN  IF ~configured.ok THEN Panic(f)
        ELSE Ok([f EXCEPT !.plots =
                    Append(f.plots, Plot_new(data, CandlestickProperties_script(configured.p)))])

-----------------------------------------------------------------------------
(* Figure::script *)

\* a faulty variant: the legend comes before the title and the axes
script_directives_key_first(f) ==
    <<"set encoding utf8\n">>
    \o <<"set output '" \o f.output \o "'\n">>
    \o (IF IsSome(f.box_width)
        THEN <<"set boxwidth " \o ToString(Unwrap(f.box_width)) \o "\n">> ELSE <<>>)
    \o (IF IsSome(f.key) THEN KeyProperties_script(Unwrap(f.key)) ELSE <<>>)
    \o (IF IsSome(f.title) THEN <<"set title '" \o Unwrap(f.title) \o "'\n">> ELSE <<>>)
    \o Flatten([i \in 1..Len(Map_iter(f.axes)) |->
                  LET axis == Map_iter(f.axes)[i]
                  IN  AxisProperties_script(axis, Unwrap(Map_get(f.axes, axis)))])
    \o (IF IsSome(f.grid) THEN GridOptions_script(Unwrap(f.grid)) ELSE <<>>)
    \o <<"set terminal " \o Terminal_display(f.terminal) \o " dashed">>
    \o (IF IsSome(f.size)
        THEN <<" size " \o ToString(Unwrap(f.size)[1]) \o ", "
               \o ToString(Unwrap(f.size)[2])>>
        ELSE <<>>)
    \o (IF IsSome(f.font)
        THEN IF IsSome(f.font_size)
             THEN <<" font '" \o Unwrap(f.font) \o "," \o ToString(Unwrap(f.font_size)) \o "'">>
             ELSE <<" font '" \o Unwrap(f.font) \o "'">>
        ELSE <<>>)
    \o <<"\nunset bars\n">>

\* lines 537-586: the directives, up to "unset bars"
script_directives(f) ==
    <<"set encoding utf8\n">>
    \o <<"set output '" \o f.output \o "'\n">>
    \o (IF IsSome(f.box_width)
        THEN <<"set boxwidth " \o ToString(Unwrap(f.box_width)) \o "\n">> ELSE <<>>)
    \o (IF IsSome(f.title) THEN <<"set title '" \o Unwrap(f.title) \o "'\n">> ELSE <<>>)
    \o Flatten([i \in 1..Len(Map_iter(f.axes)) |->
                  LET axis == Map_iter(f.axes)[i]
                  IN  AxisProperties_script(axis, Unwrap(Map_get(f.axes, axis)))])
    \o [i \in 1..Len(Map_iter(f.tics)) |-> Unwrap(Map_get(f.tics, Map_iter(f.tics)[i]))]
    \o (IF IsSome(f.key) THEN KeyProperties_script(Unwrap(f.key)) ELSE <<>>)
    \o (IF IsSome(f.grid) THEN GridOptions_script(Unwrap(f.grid)) ELSE <<>>)
    \o (IF IsSome(f.alpha)
        THEN <<"set style fill transparent solid " \o ToString(Unwrap(f.alpha)) \o "\n">>
        ELSE <<>>)
    \o <<"set terminal " \o Terminal_display(f.terminal) \o " dashed">>
    \o (IF IsSome(f.size)
        THEN <<" size " \o ToString(Unwrap(f.size)[1]) \o ", "
               \o ToString(Unwrap(f.size)[2])>>
        ELSE <<>>)
    \o (IF IsSome(f.font)
        THEN IF IsSome(f.font_size)
             THEN <<" font '" \o Unwrap(f.font) \o "," \o ToString(Unwrap(f.font_size)) \o "'">>
             ELSE <<" font '" \o Unwrap(f.font) \o "'">>
        ELSE <<>>)
    \o <<"\nunset bars\n">>

\* a faulty variant: columns counted from 0
RECURSIVE UsingList_zero_based(_, _)
UsingList_zero_based(col, ncols) ==
    IF col >= ncols THEN <<>>
    ELSE (IF col = 0 THEN <<>> ELSE <<":">>) \o <<ToString(col)>>
         \o UsingList_zero_based(col + 1, ncols)

\* lines 608-616: the using list 1:2:..:ncols
RECURSIVE UsingList(_, _)
UsingList(col, ncols) ==
    IF col >= ncols THEN <<>>
    ELSE (IF col = 0 THEN <<>> ELSE <<":">>) \o <<ToString(col + 1)>>
         \o UsingList(col + 1, ncols)

\* lines 603-619: one clause
PlotClause(plot) ==
    <<"'-' binary endian=little record=" \o ToString(Matrix_nrows(Plot_data(plot)))
      \o " format='%float64' using ">>
    \o UsingList(0, Matrix_ncols(Plot_data(plot)))
    \o <<" ">>
    \o Plot_script(plot)

\* a faulty variant: a skipped series clears is_first_plot too
RECURSIVE script_plots_skip_clears(_, _)
script_plots_skip_clears(plots, is_first_plot) ==
    IF plots = <<>> THEN <<>>
    ELSE IF Matrix_bytes(Plot_data(Head(plots))) = <<>>
         THEN script_plots_skip_clears(Tail(plots), FALSE)
         ELSE (IF is_first_plot THEN <<"plot ">> ELSE <<", ">>)
              \o PlotClause(Head(plots))
              \o script_plots_skip_clears(Tail(plots), FALSE)

\* lines 588-620: the plot line; is_first_plot is threaded through the loop
RECURSIVE script_plots(_, _)
script_plots(plots, is_first_plot) ==
    IF plots = <<>> THEN <<>>
    ELSE IF Matrix_bytes(Plot_data(Head(plots))) = <<>>
         THEN script_plots(Tail(plots), is_first_plot)
         ELSE (IF is_first_plot THEN <<"plot ">> ELSE <<", ">>)
              \o PlotClause(Head(plots))
              \o script_plots(Tail(plots), FALSE)

\* a faulty variant: the separator newline is pushed before the loop
RECURSIVE script_payload_newline_first(_, _)
script_payload_newline_first(plots, is_first) ==
    (IF is_first THEN <<"\n">> ELSE <<>>)
    \o (IF plots = <<>> THEN <<>>
        ELSE Matrix_bytes(Plot_data(Head(plots)))
             \o script_payload_newline_first(Tail(plots), FALSE))

\* lines 622-630: the newline and the payloads; is_first is threaded through the loop
RECURSIVE script_payload(_, _)
script_payload(plots, is_first) ==
    IF plots = <<>> THEN <<>>
    ELSE (IF is_first THEN <<"\n">> ELSE <<>>)
         \o Matrix_bytes(Plot_data(Head(plots)))
         \o script_payload(Tail(plots), FALSE)

script(f) ==
    script_directives(f) \o script_plots(f.plots, TRUE) \o script_payload(f.plots, TRUE)

-----------------------------------------------------------------------------
(* The calls on a Figure, as actions *)

Init ==
    /\ fig = Figure_new
    /\ out = <<>>
    /\ call = [op |-> "new", panicked |-> FALSE, args |-> <<>>]

\* a call that may change the Figure: r is what it returns
Mutate(op, args, r) ==
    /\ fig' = r.fig
    /\ out' = <<>>
    /\ call' = [op |-> op, panicked |-> ~r.ok, args |-> args]

BoxWidth(width) == Mutate("box_width", <<width>>, Figure_box_width(fig, width))
Font(font) == Mutate("font", <<font>>, Figure_font(fig, font))
FontSize(size) == Mutate("font_size", <<size>>, Figure_font_size(fig, size))
Output(output) == Mutate("output", <<output>>, Figure_output(fig, output))
FigureSize(width, height) ==
    Mutate("figure_size", <<width, height>>, Figure_figure_size(fig, width, height))
SetTerminal(terminal) == Mutate("terminal", <<terminal>>, Figure_terminal(fig, terminal))
Title(title) == Mutate("title", <<title>>, Figure_title(fig, title))

ConfigureAxis(axis, step) ==
    Mutate("configure_axis", [axis |-> axis, step |-> step],
           Figure_configure_axis(fig, axis, step))
ConfigureKey(step) == Mutate("configure_key", [step |-> step], Figure_configure_key(fig, step))
ConfigureGrid(step) ==
    Mutate("configure_grid", [step |-> step], Figure_configure_grid(fig, step))

PlotCurve(style, curve, chain) ==
    Mutate("plot_curve", [style |-> style, data |-> curve, chain |-> chain],
           Figure_plot_curve(fig, style, curve, chain))
PlotErrorBar(style, e, chain) ==
    Mutate("plot_errorbar", [style |-> style, data |-> e, chain |-> chain],
           Figure_plot_errorbar(fig, style, e, chain))
PlotFilledCurve(fc, chain) ==
    Mutate("plot_filledcurve", [data |-> fc, chain |-> chain],
           Figure_plot_filledcurve(fig, fc, chain))
PlotCandlesticks(c, chain) ==
    Mutate("plot_candlesticks", [data |-> c, chain |-> chain],
           Figure_plot_candlesticks(fig, c, chain))

\* a faulty variant: script() drains the series it wrote
Script_draining ==
    /\ out' = script(fig)
    /\ call' = [op |-> "script", panicked |-> FALSE,
                args |-> IF call.op = "script" THEN <<2>> ELSE <<1>>]
    /\ fig' = [fig EXCEPT !.plots = <<>>]

\* a faulty variant: script() takes the legend record out of the Figure
Script_taking_key ==
    /\ out' = script(fig)
    /\ call' = [op |-> "script", panicked |-> FALSE,
                args |-> IF call.op = "script" THEN <<2>> ELSE <<1>>]
    /\ fig' = [fig EXCEPT !.key = None]

\* script(&self), as dump and save call it: the Figure is only read.  args
\* tells a first script() since the Figure was touched (1) from a repeated one (2)
Script ==
    /\ out' = script(fig)
    /\ call' = [op |-> "script", panicked |-> FALSE,
                args |-> IF call.op = "script" THEN <<2>> ELSE <<1>>]
    /\ UNCHANGED fig

-----------------------------------------------------------------------------
(* Inputs *)

\* n samples base+1, base+2, ..
Samples(base, n) == [r \in 1..n |-> base + r]

CurveData(n, m) == [x |-> Samples(0, n), y |-> Samples(3, m)]
ErrorBarData(n, m) ==
    [x |-> Samples(0, n), y |-> Samples(3, m), low |-> Samples(10, m),
     high |-> Samples(20, m)]
FilledCurveData(n, m) == [x |-> Samples(0, n), y1 |-> Samples(3, m), y2 |-> Samples(30, m)]
CandlesticksData(n, m) ==
    [x |-> Samples(0, n), whisker_min |-> Samples(40, m), box_min |-> Samples(50, m),
     box_high |-> Samples(60, m), whisker_high |-> Samples(70, m)]

-----------------------------------------------------------------------------
(* The compile pipeline: series of every kind, then script() *)

\* room for one more series
Room == Len(fig.plots) < MaxPlots

\* no rows, and the two longest series
Rows == {0, MaxRows - 1, MaxRows}

Next ==
    \/ \E n \in Rows : Room /\ PlotCurve("Lines", CurveData(n, n), <<>>)
    \/ \E n \in Rows : Room /\ PlotErrorBar("YErrorBars", ErrorBarData(n, n), <<>>)
    \/ \E n \in Rows : Room /\ PlotFilledCurve(FilledCurveData(n, n), <<>>)
    \/ \E n \in Rows : Room /\ PlotCandlesticks(CandlesticksData(n, n), <<>>)
    \/ Script

Spec == Init /\ [][Next]_vars

-----------------------------------------------------------------------------
(* The axis registry: every axis, a few setters *)

Populated(f) == {a \in Axis : Map_contains_key(f.axes, a)}

MapSteps == {[op |-> "hide"], [op |-> "scale_factor", factor |-> 2]}

NextMap ==
    \/ \E axis \in Axis, step \in MapSteps : ConfigureAxis(axis, step)
    \/ Script

SpecMap == Init /\ [][NextMap]_vars

-----------------------------------------------------------------------------
(* The axis record: every setter, on two axes *)

AxisSteps ==
    {[op |-> "hide"], [op |-> "show"], [op |-> "label", label |-> "L"],
     [op |-> "range", range |-> [kind |-> "Auto"]],
     [op |-> "range", range |-> [kind |-> "Limits", low |-> 0, high |-> 11]],
     [op |-> "scale", scale |-> "Linear"], [op |-> "scale", scale |-> "Logarithmic"],
     [op |-> "tick_labels", tics |-> [positions |-> <<>>, labels |-> <<>>]],
     [op |-> "tick_labels", tics |-> [positions |-> <<1, 2>>, labels |-> <<"a", "b">>]],
     [op |-> "configure_major_grid", gstep |-> "show"],
     [op |-> "configure_major_grid", gstep |-> "hide"],
     [op |-> "configure_minor_grid", gstep |-> "show"],
     [op |-> "configure_minor_grid", gstep |-> "hide"],
     [op |-> "configure_major_grid", gstep |-> "store_show"],
     [op |-> "configure_major_grid", gstep |-> "store_hide"],
     [op |-> "configure_minor_grid", gstep |-> "store_show"],
     [op |-> "configure_minor_grid", gstep |-> "store_hide"]}

\* the two X axes: "x" and "x2"
AxisInputs == {"BottomX", "TopX"}

NextAxis ==
    \/ \E axis \in AxisInputs, step \in AxisSteps : ConfigureAxis(axis, step)
    \/ Script

SpecAxis == Init /\ [][NextAxis]_vars

-----------------------------------------------------------------------------
(* The legend: every setter of the key record *)

KeySteps ==
    {[op |-> "hide"], [op |-> "show"],
     [op |-> "boxed", boxed |-> "Yes"], [op |-> "boxed", boxed |-> "No"],
     [op |-> "justification", justification |-> "Left"],
     [op |-> "justification", justification |-> "Right"],
     [op |-> "order", order |-> "TextSample"], [op |-> "order", order |-> "SampleText"],
     [op |-> "position", position |-> [kind |-> "Inside", v |-> "Top", h |-> "Right"]],
     [op |-> "position", position |-> [kind |-> "Outside", v |-> "Bottom", h |-> "Left"]],
     [op |-> "stacked", stacked |-> "Horizontally"],
     [op |-> "stacked", stacked |-> "Vertically"],
     [op |-> "title", title |-> "K"]}

NextKey ==
    \/ \E step \in KeySteps : ConfigureKey(step)
    \/ Script

SpecKey == Init /\ [][NextKey]_vars

-----------------------------------------------------------------------------
(* Configuration: every operation of the Figure, at most MaxSettings        *)
(* settings made and at most one series registered                         *)

B2N(b) == IF b THEN 1 ELSE 0

NumSettings(f) ==
    B2N(IsSome(f.box_width)) + B2N(IsSome(f.font)) + B2N(IsSome(f.font_size))
    + B2N(IsSome(f.size)) + B2N(IsSome(f.title)) + B2N(IsSome(f.key))
    + B2N(IsSome(f.grid)) + B2N(f.output # Figure_new.output)
    + Cardinality(Populated(f))

Within == NumSettings(fig') <= MaxSettings
NoSeries == fig.plots = <<>>

ConfigAxisSteps == {[op |-> "hide"], [op |-> "label", label |-> "L"]}
ConfigKeySteps == {[op |-> "hide"], [op |-> "boxed", boxed |-> "Yes"]}
ConfigGridSteps ==
    {[op |-> "layer", layer |-> "Front"],
     [op |-> "configure_major", step |-> [op |-> "line_width", width |-> 2]]}

\* widths and sizes on both sides of zero
BoxWidths == {-1, 0, 1}
FontSizes == {-1, 0, 12}

NextConfig ==
    \/ \E width \in BoxWidths : BoxWidth(width) /\ Within
    \/ Font("Helvetica") /\ Within
    \/ \E size \in FontSizes : FontSize(size) /\ Within
    \/ Output("out.svg") /\ Within
    \/ FigureSize(1280, 720) /\ Within
    \/ SetTerminal("Svg")
    \/ Title("T") /\ Within
    \/ \E axis \in Axis, step \in ConfigAxisSteps : ConfigureAxis(axis, step) /\ Within
    \/ \E step \in ConfigKeySteps : ConfigureKey(step) /\ Within
    \/ \E step \in ConfigGridSteps : ConfigureGrid(step) /\ Within
    \/ \E n \in {0, MaxRows} : NoSeries /\ PlotCurve("Lines", CurveData(n, n), <<>>)
    \/ \E n \in {0, MaxRows} :
          NoSeries /\ PlotErrorBar("YErrorBars", ErrorBarData(n, n), <<>>)
    \/ \E n \in {0, MaxRows} : NoSeries /\ PlotFilledCurve(FilledCurveData(n, n), <<>>)
    \/ \E n \in {0, MaxRows} : NoSeries /\ PlotCandlesticks(CandlesticksData(n, n), <<>>)
    \/ Script

SpecConfig == Init /\ [][NextConfig]_vars

-----------------------------------------------------------------------------
(* Series registration: scale factors in the registry, a configured series *)

RoomSeries == Len(fig.plots) < MaxSeries

RegAxes == {"BottomX", "LeftY", "RightY"}
RegAxisSteps == {[op |-> "scale_factor", factor |-> 2], [op |-> "scale_factor", factor |-> 3]}

CurveSteps ==
    {[op |-> "axes", axes |-> "BottomXRightY"], [op |-> "axes", axes |-> "BottomXLeftY"],
     [op |-> "color", color |-> "red"], [op |-> "label", label |-> "a"],
     [op |-> "line_type", line_type |-> "Dash"],
     [op |-> "line_width", lw |-> 2], [op |-> "line_width", lw |-> 0],
     [op |-> "point_size", ps |-> 2], [op |-> "point_type", point_type |-> "Circle"]}

ErrorBarSteps ==
    {[op |-> "color", color |-> "red"], [op |-> "label", label |-> "a"],
     [op |-> "line_type", line_type |-> "Dash"],
     [op |-> "line_width", lw |-> 2], [op |-> "line_width", lw |-> 0],
     [op |-> "point_size", ps |-> 2], [op |-> "point_type", point_type |-> "Circle"]}

FilledCurveSteps ==
    {[op |-> "axes", axes |-> "BottomXRightY"], [op |-> "axes", axes |-> "BottomXLeftY"],
     [op |-> "color", color |-> "red"], [op |-> "label", label |-> "a"],
     [op |-> "opacity", opacity |-> 1], [op |-> "opacity", opacity |-> 2]}

CandlestickSteps ==
    {[op |-> "color", color |-> "red"], [op |-> "label", label |-> "a"],
     [op |-> "line_type", line_type |-> "Dash"],
     [op |-> "line_width", lw |-> 2], [op |-> "line_width", lw |-> 0]}

RegGridSteps ==
    {[op |-> "configure_major", step |-> [op |-> "line_width", width |-> w]] : w \in {0, 2}}

\* the closures: chains of at most MaxChain setter calls
RECURSIVE Chains(_, _)
Chains(steps, n) ==
    IF n = 0 THEN {<<>>}
    ELSE Chains(steps, n - 1)
         \cup {Append(c, st) : c \in Chains(steps, n - 1), st \in steps}

NextReg ==
    \/ \E axis \in RegAxes, step \in RegAxisSteps : ConfigureAxis(axis, step)
    \/ \E step \in RegGridSteps : ConfigureGrid(step)
    \/ \E style \in {"Lines", "Points"}, chain \in Chains(CurveSteps, MaxChain) :
           RoomSeries /\ PlotCurve(style, CurveData(MaxRows, MaxRows), chain)
    \/ \E style \in {"XErrorBars", "YErrorBars"}, chain \in Chains(ErrorBarSteps, MaxChain) :
           RoomSeries /\ PlotErrorBar(style, ErrorBarData(MaxRows, MaxRows), chain)
    \/ \E chain \in Chains(FilledCurveSteps, MaxChain) :
           RoomSeries /\ PlotFilledCurve(FilledCurveData(MaxRows, MaxRows), chain)
    \/ \E chain \in Chains(CandlestickSteps, MaxChain) :
           RoomSeries /\ PlotCandlesticks(CandlesticksData(MaxRows, MaxRows), chain)
    \/ Script

SpecReg == Init /\ [][NextReg]_vars

-----------------------------------------------------------------------------
(* The style fragments: Properties::script of each kind, on the properties  *)
(* the setters build                                                        *)

\* the numbers in picks that are at most n, in increasing order
RECURSIVE Picked(_, _)
Picked(n, picks) ==
    IF n = 0 THEN <<>>
    ELSE Picked(n - 1, picks) \o (IF n \in picks THEN <<n>> ELSE <<>>)

\* the setter calls a closure can be written from, in the order written
CurveSetting(i) ==
    CASE i = 1 -> [op |-> "axes", axes |-> "BottomXRightY"]
      [] i = 2 -> [op |-> "color", color |-> "red"]
      [] i = 3 -> [label |-> "a", op |-> "label"]
      [] i = 4 -> [op |-> "line_type", line_type |-> "Dash"]
      [] i = 5 -> [op |-> "line_width", lw |-> 2]
      [] i = 6 -> [op |-> "point_size", ps |-> 2]
      [] i = 7 -> [op |-> "point_type", point_type |-> "Circle"]

ErrorBarSetting(i) ==
    CASE i = 1 -> [op |-> "color", color |-> "red"]
      [] i = 2 -> [label |-> "a", op |-> "label"]
      [] i = 3 -> [op |-> "line_type", line_type |-> "Dash"]
      [] i = 4 -> [op |-> "line_width", lw |-> 2]
      [] i = 5 -> [op |-> "point_size", ps |-> 2]
      [] i = 6 -> [op |-> "point_type", point_type |-> "Circle"]

FilledCurveSetting(i) ==
    CASE i = 1 -> [op |-> "axes", axes |-> "BottomXRightY"]
      [] i = 2 -> [op |-> "color", color |-> "red"]
      [] i = 3 -> [label |-> "a", op |-> "label"]
      [] i = 4 -> [op |-> "opacity", opacity |-> 1]

CandlestickSetting(i) ==
    CASE i = 1 -> [op |-> "color", color |-> "red"]
      [] i = 2 -> [label |-> "a", op |-> "label"]
      [] i = 3 -> [op |-> "line_type", line_type |-> "Dash"]
      [] i = 4 -> [op |-> "line_width", lw |-> 2]

\* the closure that makes the picked calls of the n a kind has
CurveChain(picks) == [j \in 1..Cardinality(picks) |-> CurveSetting(Picked(7, picks)[j])]
ErrorBarChain(picks) ==
    [j \in 1..Cardinality(picks) |-> ErrorBarSetting(Picked(6, picks)[j])]
FilledCurveChain(picks) ==
    [j \in 1..Cardinality(picks) |-> FilledCurveSetting(Picked(4, picks)[j])]
CandlestickChain(picks) ==
    [j \in 1..Cardinality(picks) |-> CandlestickSetting(Picked(4, picks)[j])]

\* script() of a properties record: the record and the fragment it gives
Rendered(kind, p, fragment) ==
    /\ call' = [op |-> "properties_script", panicked |-> FALSE,
                args |-> [kind |-> kind, p |-> p, fragment |-> fragment]]
    /\ UNCHANGED <<fig, out>>

CurveScript(style, chain) ==
    LET p == CurveConfigure(CurveProperties_from_style(style), chain).p
    IN  Rendered("curve", p, CurveProperties_script(p))

ErrorBarScript(style, chain) ==
    LET p == ErrorBarConfigure(ErrorBarProperties_default(style), chain).p
    IN  Rendered("errorbar", p, ErrorBarProperties_script(p))

FilledCurveScript(chain) ==
    LET p == FilledCurveConfigure(FilledCurveProperties_default, chain).p
    IN  Rendered("filledcurve", p, FilledCurveProperties_script(p))

CandlestickScript(chain) ==
    LET p == CandlestickConfigure(CandlestickProperties_default, chain).p
    IN  Rendered("candlestick", p, CandlestickProperties_script(p))

NextStyle ==
    \/ \E style \in {"Lines", "Points"}, picks \in SUBSET (1..7) :
           CurveScript(style, CurveChain(picks))
    \/ \E style \in {"XErrorBars", "YErrorLines"}, picks \in SUBSET (1..6) :
           ErrorBarScript(style, ErrorBarChain(picks))
    \/ \E picks \in SUBSET (1..4) : FilledCurveScript(FilledCurveChain(picks))
    \/ \E picks \in SUBSET (1..4) : CandlestickScript(CandlestickChain(picks))

SpecStyle == Init /\ [][NextStyle]_vars

-----------------------------------------------------------------------------
(* Sequences of any two lengths: one series of any kind, x of one length    *)
(* and the other sequences of another, with factors on BottomX and LeftY    *)

Lengths == 0..MaxRows

NextLengths ==
    \/ \E axis \in {"BottomX", "LeftY"}, factor \in {2, 3} :
           ConfigureAxis(axis, [op |-> "scale_factor", factor |-> factor])
    \/ \E n, m \in Lengths :
           fig.plots = <<>> /\ PlotCurve("Lines", CurveData(n, m), <<>>)
    \/ \E style \in {"XErrorBars", "YErrorBars"}, n, m \in Lengths :
           fig.plots = <<>> /\ PlotErrorBar(style, ErrorBarData(n, m), <<>>)
    \/ \E n, m \in Lengths :
           fig.plots = <<>> /\ PlotFilledCurve(FilledCurveData(n, m), <<>>)
    \/ \E n, m \in Lengths :
           fig.plots = <<>> /\ PlotCandlesticks(CandlesticksData(n, m), <<>>)
    \/ Script

SpecLengths == Init /\ [][NextLengths]_vars

-----------------------------------------------------------------------------
(* The life of a series: registrations with settings changed in between *)

LifeAxisSteps ==
    {[op |-> "scale_factor", factor |-> 2], [op |-> "hide"],
     [op |-> "range", range |-> [kind |-> "Limits", low |-> 0, high |-> 11]]}

NextLife ==
    \/ \E step \in LifeAxisSteps : ConfigureAxis("LeftY", step)
    \/ ConfigureKey([op |-> "hide"])
    \/ ConfigureGrid([op |-> "layer", layer |-> "Front"])
    \/ Title("T")
    \/ Room /\ PlotCurve("Lines", CurveData(MaxRows, MaxRows), <<>>)
    \/ Room /\ PlotErrorBar("YErrorBars", ErrorBarData(MaxRows, MaxRows), <<>>)

SpecLife == Init /\ [][NextLife]_vars

-----------------------------------------------------------------------------
(* The registry alone: insert on every key, over empty and occupied slots *)

\* records told apart by their scale factor
InsertValues == {AxisProperties_scale_factor(AxisProperties_default, k) : k \in 1..MaxFactor}

\* Map::insert on the Figure's registry; args.old is what it returns
Insert(key, value) ==
    LET r == Map_insert(fig.axes, key, value)
    IN  Mutate("insert", [key |-> key, value |-> value, old |-> r.old],
               Ok([fig EXCEPT !.axes = r.map]))

NextInsert == \E key \in Axis, value \in InsertValues : Insert(key, value)

SpecInsert == Init /\ [][NextInsert]_vars

-----------------------------------------------------------------------------
(* gnuplot's version: text is a sequence of characters *)

IsWhitespace(c) == c \in {" ", "\t", "\n"}
Digits == <<"0", "1", "2", "3", "4", "5", "6", "7", "8", "9">>
IsDigit(c) == \E d \in 1..10 : Digits[d] = c
DigitValue(c) == (CHOOSE d \in 1..10 : Digits[d] = c) - 1

\* str::split_whitespace: the non-empty runs of non-whitespace characters
RECURSIVE SplitWhitespace(_, _)
SplitWhitespace(text, word) ==
    IF text = <<>> THEN (IF word = <<>> THEN <<>> ELSE <<word>>)
    ELSE IF IsWhitespace(Head(text))
         THEN (IF word = <<>> THEN <<>> ELSE <<word>>) \o SplitWhitespace(Tail(text), <<>>)
         ELSE SplitWhitespace(Tail(text), Append(word, Head(text)))

\* str::split('.'): the parts between the dots, empty ones included
RECURSIVE SplitDot(_, _)
SplitDot(text, part) ==
    IF text = <<>> THEN <<part>>
    ELSE IF Head(text) = "."
         THEN <<part>> \o SplitDot(Tail(text), <<>>)
         ELSE SplitDot(Tail(text), Append(part, Head(text)))

RECURSIVE DecimalValue(_, _)
DecimalValue(digits, acc) ==
    IF digits = <<>> THEN acc
    ELSE DecimalValue(Tail(digits), 10 * acc + DigitValue(Head(digits)))

\* str::parse::<usize>: an optional '+', then one digit or more and nothing
\* else.  The texts parsed here have at most two digits, far below usize::MAX.
ParseUsize(text) ==
    LET digits == IF text # <<>> /\ Head(text) = "+" THEN Tail(text) ELSE text
    IN  IF digits # <<>> /\ \A i \in 1..Len(digits) : IsDigit(digits[i])
        THEN [ok |-> TRUE, value |-> DecimalValue(digits, 0)]
        ELSE [ok |-> FALSE, err |-> Some("ParseIntError")]

\* a faulty variant: the patch is the word right after the version token
parse_version_nth0(version_str) ==
    LET all == SplitWhitespace(version_str, <<>>)
        words == IF all = <<>> THEN <<>> ELSE Tail(all)
    IN  IF words = <<>> THEN [ok |-> FALSE, err |-> None]
        ELSE LET version == SplitDot(Head(words), <<>>)
                 major == ParseUsize(version[1])
             IN  IF ~major.ok THEN major
                 ELSE IF Len(version) < 2 THEN [ok |-> FALSE, err |-> None]
                 ELSE LET minor == ParseUsize(version[2])
                      IN  IF ~minor.ok THEN minor
                          ELSE IF Len(words) < 2 THEN [ok |-> FALSE, err |-> None]
                          ELSE [ok |-> TRUE,
                                value |-> [major |-> major.value, minor |-> minor.value,
                                           patch |-> words[2]]]

\* a faulty variant: a version token without a minor part gets minor 0
parse_version_minor_0(version_str) ==
    LET all == SplitWhitespace(version_str, <<>>)
        words == IF all = <<>> THEN <<>> ELSE Tail(all)
    IN  IF words = <<>> THEN [ok |-> FALSE, err |-> None]
        ELSE LET version == SplitDot(Head(words), <<>>)
                 major == ParseUsize(version[1])
                 minor == IF Len(version) < 2 THEN [ok |-> TRUE, value |-> 0]
                          ELSE ParseUsize(version[2])
             IN  IF ~major.ok THEN major
                 ELSE IF ~minor.ok THEN minor
                 ELSE IF Len(words) < 3 THEN [ok |-> FALSE, err |-> None]
                 ELSE [ok |-> TRUE,
                       value |-> [major |-> major.value, minor |-> minor.value,
                                  patch |-> words[3]]]

\* fn parse_version(version_str) -> Result<Version, Option<ParseIntError>>
parse_version(version_str) ==
    LET all == SplitWhitespace(version_str, <<>>)
        words == IF all = <<>> THEN <<>> ELSE Tail(all)
    IN  IF words = <<>> THEN [ok |-> FALSE, err |-> None]
        ELSE LET version == SplitDot(Head(words), <<>>)
                 major == ParseUsize(version[1])
             IN  IF ~major.ok THEN major
                 ELSE IF Len(version) < 2 THEN [ok |-> FALSE, err |-> None]
                 ELSE LET minor == ParseUsize(version[2])
                      IN  IF ~minor.ok THEN minor
                          ELSE IF Len(words) < 3 THEN [ok |-> FALSE, err |-> None]
                          ELSE [ok |-> TRUE,
                                value |-> [major |-> major.value, minor |-> minor.value,
                                           patch |-> words[3]]]

\* pub fn version(): `ran` is what running `gnuplot --version` gave
version(ran) ==
    CASE ran.kind = "exec_failed" -> [ok |-> FALSE, err |-> <<"Exec">>]
      [] ran.kind = "failed" -> [ok |-> FALSE, err |-> <<"Error", ran.stderr>>]
      [] ran.kind = "invalid_utf8" -> [ok |-> FALSE, err |-> <<"OutputError">>]
      [] ran.kind = "success" ->
             LET parsed == parse_version(ran.stdout)
             IN  IF parsed.ok THEN parsed
                 ELSE [ok |-> FALSE, err |-> <<"ParseError", ran.stdout>>]

\* the words of a text, `sep` between them
RECURSIVE Written(_, _)
Written(words, sep) ==
    IF words = <<>> THEN <<>>
    ELSE IF Len(words) = 1 THEN words[1]
    ELSE words[1] \o sep \o Written(Tail(words), sep)

\* the two calls as steps; args keeps the words the text was written from
ParseVersion(words, sep) ==
    /\ call' = [op |-> "parse_version", panicked |-> FALSE,
                args |-> [words |-> words, sep |-> sep,
                          result |-> parse_version(Written(words, sep))]]
    /\ out' = <<>>
    /\ UNCHANGED fig

GetVersion(ran, words) ==
    /\ call' = [op |-> "version", panicked |-> FALSE,
                args |-> [ran |-> ran, words |-> words, result |-> version(ran)]]
    /\ out' = <<>>
    /\ UNCHANGED fig

W_gnuplot == <<"g", "n", "u", "p", "l", "o", "t">>
W_foobar == <<"f", "o", "o", "b", "a", "r">>
W_patchlevel == <<"p", "a", "t", "c", "h", "l", "e", "v", "e", "l">>
W_5_2 == <<"5", ".", "2">>
W_5_0 == <<"5", ".", "0">>
W_50 == <<"5", "0">>
W_foo_bar == <<"f", "o", "o", ".", "b", "a", "r">>
W_5_ == <<"5", ".">>
W_5_x == <<"5", ".", "x">>
W_7 == <<"7">>
W_5a == <<"5", "a">>
GentooWords == <<<<"(", "G", "e", "n", "t", "o", "o">>, <<"r", "e", "v", "i", "s", "i", "o", "n">>, <<"r", "0", ")">>>>

\* what can stand at place k of a version line
WordsAt(k) ==
    CASE k = 1 -> {W_gnuplot, W_foobar}
      [] k = 2 -> {W_5_2, W_5_0, W_50, W_foo_bar, W_5_, W_5_x}
      [] k = 3 -> {W_patchlevel}
      [] k = 4 -> {W_7, W_5a}
      [] OTHER -> {GentooWords[((k - 5) % 3) + 1]}

\* the lines of at most n words, cut anywhere
RECURSIVE LinesUpTo(_)
LinesUpTo(n) ==
    IF n = 0 THEN {<<>>}
    ELSE LET shorter == LinesUpTo(n - 1)
         IN  shorter \cup {Append(ws, x) : ws \in {l \in shorter : Len(l) = n - 1},
                                           x \in WordsAt(n)}

VersionLines == LinesUpTo(MaxWords)

Separators == {<<" ">>, <<" ", "\t">>}

NextVersion ==
    \/ \E words \in VersionLines, sep \in Separators : ParseVersion(words, sep)
    \/ \E words \in VersionLines :
           GetVersion([kind |-> "success", stdout |-> Written(words, <<" ">>) \o <<"\n">>],
                      words)
    \/ \E kind \in {"exec_failed", "invalid_utf8"} : GetVersion([kind |-> kind], <<>>)
    \/ GetVersion([kind |-> "failed", stderr |-> W_foobar], <<>>)

SpecVersion == Init /\ [][NextVersion]_vars

-----------------------------------------------------------------------------
(* Reading a compiled buffer back *)

BarsToken == "\nunset bars\n"

\* the buffer after the "unset bars" directive
AfterBars(o) ==
    LET i == CHOOSE j \in 1..Len(o) : o[j] = BarsToken
    IN  SubSeq(o, i + 1, Len(o))

\* the place of the first newline after "unset bars", 0 if there is none
SeparatorAt(o) ==
    LET t == AfterBars(o)
        nl == {j \in 1..Len(t) : t[j] = "\n"}
    IN  IF nl = {} THEN 0 ELSE CHOOSE j \in nl : \A k \in nl : j <= k

HasSeparator(o) == SeparatorAt(o) # 0

\* the plot line: what follows "unset bars", up to the separator newline
PlotLine(o) ==
    IF HasSeparator(o) THEN SubSeq(AfterBars(o), 1, SeparatorAt(o) - 1) ELSE AfterBars(o)

\* the binary section: what follows the separator newline
Payload(o) ==
    IF HasSeparator(o) THEN SubSeq(AfterBars(o), SeparatorAt(o) + 1, Len(AfterBars(o)))
    ELSE <<>>

\* the places in the plot line where a clause starts: after "plot " or ", "
ClauseStarts(line) ==
    LET IsStart(i) == line[i] \in {"plot ", ", "}
    IN  SelectSeq([i \in 1..Len(line) |-> i], IsStart)

\* clause k of the plot line, without its "plot " or ", "
Clause(line, k) ==
    LET starts == ClauseStarts(line)
        last == IF k < Len(starts) THEN starts[k + 1] - 1 ELSE Len(line)
    IN  SubSeq(line, starts[k] + 1, last)

HasRows(plot) == plot.data.nrows >= 1
NonEmpty(plots) == SelectSeq(plots, HasRows)

RECURSIVE PayloadBytes(_)
PayloadBytes(plots) ==
    IF plots = <<>> THEN 0
    ELSE Head(plots).data.nrows * Head(plots).data.ncols * BytesPerF64
         + PayloadBytes(Tail(plots))

RecordToken(nrows) ==
    "'-' binary endian=little record=" \o ToString(nrows) \o " format='%float64' using "

\* 1:2:..:K
Using(K) == [j \in 1..(2 * K - 1) |-> IF j % 2 = 1 THEN ToString((j + 1) \div 2) ELSE ":"]

Compiled == out # <<>>

-----------------------------------------------------------------------------
(* Claims *)

\* C1: a second script() with no call on the Figure in between returns the
\* bytes the first one returned.
C1_CompileIdempotent ==
    [][(call.op = "script" /\ call'.op = "script") => out' = out]_vars

\* C1 witness: a repeated script() on a Figure holding a setting and a series with rows
C1_Witness ==
    /\ call.op = "script" /\ call.args = <<2>>
    /\ NumSettings(fig) >= 1
    /\ \E i \in 1..Len(fig.plots) : HasRows(fig.plots[i])

CanonicalRank(a) ==
    CASE a = "BottomX" -> 1 [] a = "LeftY" -> 2 [] a = "RightY" -> 3 [] a = "TopX" -> 4

\* C2: iterating the registry yields each populated key once and no other key,
\* in the order BottomX, LeftY, RightY, TopX.
C2_IterationOrder ==
    LET keys == Map_iter(fig.axes)
    IN  /\ \A a \in Axis : Count(keys, a) = B2N(IsSome(fig.axes[a]))
        /\ \A i, j \in 1..Len(keys) :
               i < j => CanonicalRank(keys[i]) < CanonicalRank(keys[j])

\* C2 witness: all four keys populated, BottomX the latest one configured
C2_Witness ==
    /\ Populated(fig) = Axis
    /\ call.op = "configure_axis" /\ call.args.axis = "BottomX"

\* every directive a visible record of `axis` can put in the script, over the
\* inputs; the tic labels are the tail of the "set <axis>tics" directive
VisibleAxisDirectives(axis) ==
    LET d == Axis_display(axis)
    IN  {"set " \o d \o "tics nomirror ", "set " \o d \o "label 'L'\n",
         "set " \o d \o "range [0:11]\n", "set logscale " \o d \o "\n",
         "set grid " \o d \o "tics\n", "set grid m" \o d \o "tics\n"}

\* C3: a hidden axis puts exactly one "unset <axis>tics" in the compiled script
\* and no tics, tic-label, label, range, log-scale or grid directive.
C3_HiddenAxisOnlyUnset ==
    Compiled =>
        \A a \in Populated(fig) :
            Unwrap(fig.axes[a]).hidden =>
                /\ Count(out, "unset " \o Axis_display(a) \o "tics\n") = 1
                /\ \A i \in 1..Len(out) : out[i] \notin VisibleAxisDirectives(a)

\* C3 witness: a compiled Figure whose hidden axis holds a label, a range, log
\* scale, tic labels and both gridlines shown
C3_Witness ==
    /\ Compiled
    /\ \E a \in Populated(fig) :
           LET p == Unwrap(fig.axes[a])
           IN  /\ p.hidden /\ IsSome(p.label) /\ IsSome(p.range) /\ p.logarithmic
               /\ IsSome(p.tics) /\ ~p.major_grid.hidden /\ ~p.minor_grid.hidden

\* C4: with no series registered the script has no "plot " and ends with the
\* "unset bars" line.
C4_EmptyFigure ==
    (Compiled /\ fig.plots = <<>>) =>
        /\ Count(out, "plot ") = 0
        /\ out[Len(out)] = BarsToken
        /\ Count(out, BarsToken) = 1

\* C4 witness: a compiled Figure with no series, a legend and an axis record
C4_Witness ==
    /\ Compiled /\ fig.plots = <<>>
    /\ NumSettings(fig) >= 2

\* C5: the k-th clause declares record=<rows> and using 1:..:<columns> of the
\* k-th series that has rows, and the binary section holds rows*columns*8
\* bytes for every series.
C5_ClauseAndPayloadSize ==
    Compiled =>
        LET line == PlotLine(out)
            series == NonEmpty(fig.plots)
        IN  /\ Len(ClauseStarts(line)) = Len(series)
            /\ \A k \in 1..Len(series) :
                   LET c == Clause(line, k)
                       K == series[k].data.ncols
                   IN  /\ Len(c) >= 2 * K + 1
                       /\ c[1] = RecordToken(series[k].data.nrows)
                       /\ SubSeq(c, 2, 2 * K) = Using(K)
                       /\ c[2 * K + 1] = " "
            /\ Len(Payload(out)) = PayloadBytes(fig.plots)

\* C5 witness: one compiled series of 3 rows and 2 columns, 48 bytes after the newline
C5_Witness ==
    /\ Compiled /\ Len(fig.plots) = 1
    /\ fig.plots[1].data.nrows = 3 /\ fig.plots[1].data.ncols = 2
    /\ Len(Payload(out)) = 48

\* C6: a series with zero rows leaves no trace: the separator newline is there
\* exactly when "plot " is, and a Figure whose series all have zero rows
\* compiles as the Figure with no series does.
C6_ZeroRowSeriesSkipped ==
    Compiled =>
        /\ HasSeparator(out) <=> Count(out, "plot ") >= 1
        /\ NonEmpty(fig.plots) = <<>> => out = script([fig EXCEPT !.plots = <<>>])

\* C7: with N series that have rows there is one "plot ", right after the
\* directives, and N-1 ", "; the k-th clause and the k-th payload are those of
\* the k-th series that has rows, and the payloads follow one another.
C7_OnePlotKeyword ==
    (Compiled /\ NonEmpty(fig.plots) # <<>>) =>
        LET line == PlotLine(out)
            series == NonEmpty(fig.plots)
            N == Len(series)
        IN  /\ Count(out, "plot ") = 1
            /\ line[1] = "plot "
            /\ Count(out, ", ") = N - 1
            /\ Len(ClauseStarts(line)) = N
            /\ \A k \in 1..N :
                   LET c == Clause(line, k)
                       frag == series[k].script
                   IN  /\ c[1] = RecordToken(series[k].data.nrows)
                       /\ Len(c) >= Len(frag) + 1
                       /\ SubSeq(c, Len(c) - Len(frag) + 1, Len(c)) = frag
            /\ Len(Payload(out)) = PayloadBytes(series)
            /\ \A k \in 1..N :
                   LET before == PayloadBytes(SubSeq(series, 1, k - 1))
                       size == PayloadBytes(<<series[k]>>)
                   IN  SubSeq(Payload(out), before + 1, before + size)
                           = Matrix_bytes(series[k].data)

\* C7 witness: three series compiled, the first registered one without rows,
\* the other two of different kinds and sizes
C7_Witness ==
    /\ Compiled /\ Len(fig.plots) = 3
    /\ ~HasRows(fig.plots[1]) /\ HasRows(fig.plots[2]) /\ HasRows(fig.plots[3])
    /\ fig.plots[2].script # fig.plots[3].script
    /\ fig.plots[2].data.nrows # fig.plots[3].data.nrows

PlotOps == {"plot_curve", "plot_errorbar", "plot_filledcurve", "plot_candlesticks"}

\* the latest call registered a series: it is the last one of the list
Registered == call.op \in PlotOps /\ ~call.panicked
LastSeries == fig.plots[Len(fig.plots)]

\* the pair the closure of the latest registration selects
RECURSIVE SelectedPair(_)
SelectedPair(chain) ==
    IF chain = <<>> THEN "BottomXLeftY"
    ELSE LET st == chain[Len(chain)]
         IN  IF st.op = "axes" THEN st.axes
             ELSE SelectedPair(SubSeq(chain, 1, Len(chain) - 1))

PairX(pair) == IF pair \in {"BottomXLeftY", "BottomXRightY"} THEN "BottomX" ELSE "TopX"
PairY(pair) == IF pair \in {"BottomXLeftY", "TopXLeftY"} THEN "LeftY" ELSE "RightY"

\* the factor the registry records for an axis, 1 without a record
RecordedFactor(axis) ==
    IF fig.axes[axis] = None THEN 1 ELSE Unwrap(fig.axes[axis]).scale_factor

\* the series' y coordinates as given to the latest registration
GivenY(c) ==
    CASE c.op \in {"plot_curve", "plot_errorbar"} -> c.args.data.y
      [] c.op = "plot_filledcurve" -> c.args.data.y1
      [] c.op = "plot_candlesticks" -> c.args.data.box_min

Cell(m, r, c) == m.data[(r - 1) * m.ncols + c]

\* C8: a registered series has its x column multiplied by the factor recorded
\* for the X axis of its pair and its y column by the one recorded for the
\* pair's Y axis, 1 for an axis without a record.
C8_FactorsOfThePair ==
    Registered =>
        LET pair == SelectedPair(call.args.chain)
            m == LastSeries.data
        IN  \A r \in 1..m.nrows :
                /\ Cell(m, r, 1) = call.args.data.x[r] * RecordedFactor(PairX(pair))
                /\ Cell(m, r, 2) = GivenY(call)[r] * RecordedFactor(PairY(pair))

\* C9: a curve or filled curve is scaled by the factors of BottomXLeftY unless
\* its closure selects another pair, and then by the factors of that pair.
C9_SelectedPairScales ==
    (Registered /\ call.op \in {"plot_curve", "plot_filledcurve"}) =>
        LET chain == call.args.chain
            selects == \E i \in 1..Len(chain) : chain[i].op = "axes"
            pair == IF selects THEN SelectedPair(chain) ELSE "BottomXLeftY"
            fx == RecordedFactor(PairX(pair))
            fy == RecordedFactor(PairY(pair))
            d == call.args.data
        IN  LastSeries.data =
                IF call.op = "plot_curve" THEN Matrix_new(<<d.x, d.y>>, <<fx, fy>>)
                ELSE Matrix_new(<<d.x, d.y1, d.y2>>, <<fx, fy, fy>>)

\* the properties as the closure of the latest registration leaves them, rendered
ConfiguredFragment(c) ==
    CASE c.op = "plot_curve" ->
             CurveProperties_script(
                 CurveConfigure(CurveProperties_from_style(c.args.style), c.args.chain).p)
      [] c.op = "plot_errorbar" ->
             ErrorBarProperties_script(
                 ErrorBarConfigure(ErrorBarProperties_default(c.args.style), c.args.chain).p)
      [] c.op = "plot_filledcurve" ->
             FilledCurveProperties_script(
                 FilledCurveConfigure(FilledCurveProperties_default, c.args.chain).p)
      [] c.op = "plot_candlesticks" ->
             CandlestickProperties_script(
                 CandlestickConfigure(CandlestickProperties_default, c.args.chain).p)

\* C10: the fragment recorded with a registered series, of any kind, is the
\* rendering of the properties as its closure leaves them.
C10_FragmentOfConfigured ==
    Registered => LastSeries.script = ConfiguredFragment(call)

\* C11: no call on the Figure changes the matrix or the fragment of a series
\* registered before it: the series keeps the factors in force at its registration.
C11_SeriesImmutable ==
    [][/\ Len(fig'.plots) >= Len(fig.plots)
       /\ \A i \in 1..Len(fig.plots) : fig'.plots[i] = fig.plots[i]]_vars

\* C11 witness: a series registered at factor 1, the factor of LeftY then set
\* to 2 and a second series registered, the first still unscaled after a
\* legend setting
C11_Witness ==
    /\ Len(fig.plots) = 2
    /\ call.op = "configure_key"
    /\ RecordedFactor("LeftY") = 2
    /\ Cell(fig.plots[1].data, 1, 2) = 4
    /\ Cell(fig.plots[2].data, 1, 2) = 8

\* C12: script(), as dump and save run it, leaves the Figure as it found it:
\* settings, axis registry, legend, grid and series list.
C12_CompileReadsOnly ==
    [][call'.op = "script" => fig' = fig]_vars

\* C12 witness: a compiled Figure holding a legend, a grid and a series
C12_Witness ==
    /\ call.op = "script"
    /\ IsSome(fig.key) /\ IsSome(fig.grid) /\ fig.plots # <<>>

\* C13: where scale_factor is the only axis setter called, a record of BottomX
\* or LeftY is visible and a record of TopX or RightY is hidden.
C13_DefaultVisibilityByAxis ==
    \A a \in Populated(fig) :
        Unwrap(fig.axes[a]).hidden <=> a \in {"TopX", "RightY"}

\* C14: after range, scale or tick_labels the record is visible, and its
\* fragment is not the "unset <axis>tics" directive.
C14_SettersUnhide ==
    (call.op = "configure_axis" /\ call.args.step.op \in {"range", "scale", "tick_labels"}) =>
        LET axis == call.args.axis
            p == Unwrap(fig.axes[axis])
        IN  /\ ~p.hidden
            /\ AxisProperties_script(axis, p) # <<"unset " \o Axis_display(axis) \o "tics\n">>

\* C15: insert(key, value) does not fail, returns what the slot of key held,
\* leaves key mapped to value and the other slots as they were; every key
\* holds at most one value.
C15_InsertReplaces ==
    [][call'.op = "insert" =>
         LET key == call'.args.key
         IN  /\ ~call'.panicked
             /\ call'.args.old = fig.axes[key]
             /\ fig'.axes[key] = Some(call'.args.value)
             /\ \A a \in Axis \ {key} : fig'.axes[a] = fig.axes[a]
             /\ \A a \in Axis :
                    /\ Len(fig'.axes[a]) <= 1
                    /\ Count(Map_iter(fig'.axes), a) = Len(fig'.axes[a])]_vars

\* C15 witness: the four slots occupied, the latest insert having replaced a
\* different record and returned it
C15_Witness ==
    /\ call.op = "insert"
    /\ Populated(fig) = Axis
    /\ call.args.old # None /\ call.args.old # Some(call.args.value)

\* the tokens that tell the directives apart, over the inputs of the
\* configuration specification, in the order of the claim
AxisSection(a) ==
    LET d == Axis_display(a)
    IN  {"unset " \o d \o "tics\n", "set " \o d \o "tics nomirror ",
         "set " \o d \o "label 'L'\n"}

Sections ==
    << {"set encoding utf8\n"},
       {"set output 'output.plot'\n", "set output 'out.svg'\n"},
       {"set boxwidth " \o ToString(w) \o "\n" : w \in BoxWidths},
       {"set title 'T'\n"},
       AxisSection("BottomX"), AxisSection("LeftY"), AxisSection("RightY"),
       AxisSection("TopX"),
       {"set key off\n", "set key on ", "box "},
       {"set grid ", "front "},
       {"set terminal svg dashed"},
       {" size 1280, 720"},
       {" font 'Helvetica'"} \cup {" font 'Helvetica," \o ToString(z) \o "'" : z \in FontSizes},
       {BarsToken},
       {"plot "} >>

\* whether the Figure holds what section k is written for
SectionSet(f, k) ==
    CASE k \in {1, 2, 11, 14} -> TRUE
      [] k = 3 -> IsSome(f.box_width)
      [] k = 4 -> IsSome(f.title)
      [] k = 5 -> IsSome(f.axes["BottomX"])
      [] k = 6 -> IsSome(f.axes["LeftY"])
      [] k = 7 -> IsSome(f.axes["RightY"])
      [] k = 8 -> IsSome(f.axes["TopX"])
      [] k = 9 -> IsSome(f.key)
      [] k = 10 -> IsSome(f.grid)
      [] k = 12 -> IsSome(f.size)
      [] k = 13 -> IsSome(f.font)
      [] k = 15 -> NonEmpty(f.plots) # <<>>

Places(o, k) == {i \in 1..Len(o) : o[i] \in Sections[k]}

\* C16: the directives come in the fixed order, an optional one exactly when
\* it is set: encoding, output, box width, title, axes in canonical order,
\* legend, grid, terminal kind, size, font, "unset bars", the plot line.
C16_DirectiveOrder ==
    Compiled =>
        /\ out[1] = "set encoding utf8\n" /\ out[2] \in Sections[2]
        /\ \A k \in 1..Len(Sections) : Places(out, k) # {} <=> SectionSet(fig, k)
        /\ \A k, l \in 1..Len(Sections) :
               k < l => \A i \in Places(out, k), j \in Places(out, l) : i < j
        /\ \A k \in {1, 2, 3, 4, 11, 12, 13, 14, 15} : Cardinality(Places(out, k)) <= 1

\* C16 witness: a compiled Figure with a title, a legend and a series with rows
C16_Witness ==
    /\ Compiled /\ IsSome(fig.title) /\ IsSome(fig.key)
    /\ NonEmpty(fig.plots) # <<>>

\* C17: box_width aborts on a negative width and leaves the whole Figure as it
\* was; a width of 0 or more is stored and nothing else changes; no compiled
\* script holds a negative box-width directive.
C17_BoxWidthNonNegative ==
    [][/\ call'.op = "box_width" =>
              LET width == call'.args[1]
              IN  IF width < 0 THEN call'.panicked /\ fig' = fig
                  ELSE /\ ~call'.panicked
                       /\ fig' = [fig EXCEPT !.box_width = Some(width)]
       /\ \A i \in 1..Len(out'), w \in BoxWidths :
              w < 0 => out'[i] # "set boxwidth " \o ToString(w) \o "\n"]_vars

\* C17 witness: a negative width refused on a Figure that holds a box width
\* and a title
C17_Witness ==
    /\ call.op = "box_width" /\ call.args[1] < 0 /\ call.panicked
    /\ IsSome(fig.box_width) /\ IsSome(fig.title)

\* the setter calls of a closure that hand over a non-positive width or size
NonPositiveSteps(chain) ==
    {i \in 1..Len(chain) :
        \/ chain[i].op = "line_width" /\ chain[i].lw <= 0
        \/ chain[i].op = "point_size" /\ chain[i].ps <= 0}

\* C18: a line-width or point-size setter of a curve, error bar, candlestick
\* or grid style aborts on a value of zero or less, and no fragment holds an
\* lw or ps of zero.
C18_NonPositiveRejected ==
    /\ (call.op \in PlotOps /\ NonPositiveSteps(call.args.chain) # {}) => call.panicked
    /\ (call.op = "configure_grid" /\ call.args.step.step.width <= 0) => call.panicked
    /\ \A i \in 1..Len(fig.plots) :
           \A j \in 1..Len(fig.plots[i].script) :
               fig.plots[i].script[j] \notin {"lw 0 ", "ps 0 "}

\* C19: the opacity setter of a filled curve aborts on a value outside [0,1],
\* and no filled-curve fragment holds a solid fraction outside [0,1].
C19_OpacityWithinUnit ==
    /\ (/\ call.op = "plot_filledcurve"
        /\ \E i \in 1..Len(call.args.chain) :
               /\ call.args.chain[i].op = "opacity"
               /\ call.args.chain[i].opacity \notin 0..1)
       => call.panicked
    /\ \A i \in 1..Len(fig.plots) :
           \A j \in 1..Len(fig.plots[i].script) : fig.plots[i].script[j] # "solid 2 "

\* C20: font_size aborts on a size of zero or less and leaves the Figure's
\* font size as it was; only a size above zero is stored.
C20_FontSizePositive ==
    /\ (call.op = "font_size" /\ call.args[1] <= 0) => call.panicked
    /\ IsSome(fig.font_size) => Unwrap(fig.font_size) > 0

\* the two lines of the claim, character by character
GentooLine ==
    <<"g", "n", "u", "p", "l", "o", "t", " ", "5", ".", "2", " ", "p", "a",
      "t", "c", "h", "l", "e", "v", "e", "l", " ", "5", "a", " ", "(", "G",
      "e", "n", "t", "o", "o", " ", "r", "e", "v", "i", "s", "i", "o", "n",
      " ", "r", "0", ")">>
PlainLine ==
    <<"g", "n", "u", "p", "l", "o", "t", " ", "5", ".", "0", " ", "p", "a",
      "t", "c", "h", "l", "e", "v", "e", "l", " ", "7">>

\* the version tokens of the form <major>.<minor>, with their numbers
DottedNumbers == {W_5_2, W_5_0}
NumbersOf(word) == IF word = W_5_2 THEN <<5, 2>> ELSE <<5, 0>>

\* what came back from the latest parse_version or successful gnuplot run
Parsed ==
    \/ call.op = "parse_version"
    \/ call.op = "version" /\ call.args.ran.kind = "success"

\* C21: a line '<name> <major>.<minor> patchlevel <patch>', whatever follows,
\* parses to the two integers and the fourth word as text.
C21_ParsesVersionLine ==
    /\ parse_version(GentooLine) = [ok |-> TRUE, value |-> [major |-> 5, minor |-> 2, patch |-> W_5a]]
    /\ parse_version(PlainLine) = [ok |-> TRUE, value |-> [major |-> 5, minor |-> 0, patch |-> W_7]]
    /\ (/\ Parsed
        /\ Len(call.args.words) >= 4
        /\ call.args.words[2] \in DottedNumbers)
       => LET words == call.args.words
              result == call.args.result
          IN  /\ result.ok
              /\ result.value.major = NumbersOf(words[2])[1]
              /\ result.value.minor = NumbersOf(words[2])[2]
              /\ result.value.patch = words[4]

\* C21 witness: the Gentoo line, written with tabs too, parsed to 5, 2, "5a"
C21_Witness ==
    /\ call.op = "parse_version"
    /\ call.args.sep = <<" ", "\t">>
    /\ call.args.words = <<W_gnuplot, W_5_2, W_patchlevel, W_5a>> \o GentooWords
    /\ call.args.result.ok
    /\ call.args.result.value = [major |-> 5, minor |-> 2, patch |-> W_5a]

\* the version tokens with no minor part or a part that is no number
NotDottedNumbers == {W_50, W_foo_bar, W_5_, W_5_x}

\* C22: a line with a word missing or a version token that is not two
\* numbers does not parse, and version() then gives a ParseError holding the
\* whole output.
C22_RejectsBadVersionLine ==
    (/\ Parsed
     /\ \/ Len(call.args.words) <= 3
        \/ call.args.words[2] \in NotDottedNumbers)
    => /\ ~call.args.result.ok
       /\ call.op = "version" =>
              call.args.result.err = <<"ParseError", call.args.ran.stdout>>

\* C22 witness: gnuplot answering 'gnuplot 50 patchlevel 7', reported as a
\* ParseError with that text
C22_Witness ==
    /\ call.op = "version"
    /\ call.args.words = <<W_gnuplot, W_50, W_patchlevel, W_7>>
    /\ call.args.result = [ok |-> FALSE,
                           err |-> <<"ParseError", <<"g", "n", "u", "p", "l", "o", "t",
                                        " ", "5", "0", " ", "p", "a", "t",
                                        "c", "h", "l", "e", "v", "e", "l",
                                        " ", "7", "\n">>>>]

\* the sequences given to the latest registration, in the order they are zipped
GivenColumns(c) ==
    LET d == c.args.data
    IN  CASE c.op = "plot_curve" -> <<d.x, d.y>>
          [] c.op = "plot_errorbar" -> <<d.x, d.y, d.low, d.high>>
          [] c.op = "plot_filledcurve" -> <<d.x, d.y1, d.y2>>
          [] c.op = "plot_candlesticks" ->
                 <<d.x, d.box_min, d.whisker_min, d.whisker_high, d.box_high>>

\* the factors handed to the matrix with them
GivenFactors(c) ==
    LET x == RecordedFactor("BottomX")
        y == RecordedFactor("LeftY")
    IN  CASE c.op = "plot_curve" -> <<x, y>>
          [] c.op = "plot_errorbar" ->
                 IF c.args.style \in {"XErrorBars", "XErrorLines"}
                 THEN <<x, y, x, x>> ELSE <<x, y, y, y>>
          [] c.op = "plot_filledcurve" -> <<x, y, y>>
          [] c.op = "plot_candlesticks" -> <<x, y, y, y, y>>

\* C23: the matrix of K sequences of length N has N rows, K columns, N*K
\* cells and N*K*8 bytes, and the cell of row r and column c sits at index
\* r*K+c and is the c-th sequence's r-th sample times the c-th factor.
C23_MatrixShape ==
    LET cols == GivenColumns(call)
        factors == GivenFactors(call)
        K == Len(cols)
        N == Len(cols[1])
        m == LastSeries.data
    IN  (Registered /\ \A c \in 1..K : Len(cols[c]) = N) =>
            /\ Matrix_nrows(m) = N
            /\ Matrix_ncols(m) = K
            /\ Len(m.data) = N * K
            /\ Len(Matrix_bytes(m)) = N * K * 8
            /\ \A r \in 0..(N - 1), c \in 0..(K - 1) :
                   /\ m.data[r * K + c + 1] = cols[c + 1][r + 1] * factors[c + 1]
                   /\ \A k \in 0..7 :
                          Matrix_bytes(m)[(r * K + c) * 8 + k + 1]
                              = F64Byte(cols[c + 1][r + 1] * factors[c + 1], k)

\* C23 witness: a curve of MaxRows points registered with both factors
\* recorded and different
C23_Witness ==
    /\ Registered
    /\ call.op = "plot_curve"
    /\ RecordedFactor("BottomX") = 2
    /\ RecordedFactor("LeftY") = 3
    /\ LastSeries.data.nrows = MaxRows
    /\ Len(LastSeries.data.data) = MaxRows * 2

\* C27: X error bars are scaled (x, y, x, x), Y error bars (x, y, y, y), and
\* candlesticks have the columns x, box_min, whisker_min, whisker_high,
\* box_high scaled (x, y, y, y, y), x and y the BottomX and LeftY factors.
C27_AuxiliaryColumns ==
    LET d == call.args.data
        m == LastSeries.data
        x == RecordedFactor("BottomX")
        y == RecordedFactor("LeftY")
    IN  /\ (Registered /\ call.op = "plot_errorbar") =>
               LET e == IF call.args.style \in {"XErrorBars", "XErrorLines"} THEN x ELSE y
               IN  /\ m.ncols = 4
                   /\ \A r \in 1..m.nrows :
                          /\ Cell(m, r, 1) = d.x[r] * x
                          /\ Cell(m, r, 2) = d.y[r] * y
                          /\ Cell(m, r, 3) = d.low[r] * e
                          /\ Cell(m, r, 4) = d.high[r] * e
        /\ (Registered /\ call.op = "plot_candlesticks") =>
               /\ m.ncols = 5
               /\ \A r \in 1..m.nrows :
                      /\ Cell(m, r, 1) = d.x[r] * x
                      /\ Cell(m, r, 2) = d.box_min[r] * y
                      /\ Cell(m, r, 3) = d.whisker_min[r] * y
                      /\ Cell(m, r, 4) = d.whisker_high[r] * y
                      /\ Cell(m, r, 5) = d.box_high[r] * y

\* C27 witness: X error bars registered while the two factors differ
C27_Witness ==
    /\ Registered
    /\ call.op = "plot_errorbar"
    /\ call.args.style = "XErrorBars"
    /\ RecordedFactor("BottomX") = 2
    /\ RecordedFactor("LeftY") = 3
    /\ LastSeries.data.nrows = MaxRows

\* the parts of a visible axis' fragment over the inputs of the axis
\* specification, in the order of the claim
AxisParts(a) ==
    LET d == Axis_display(a)
    IN  <<"set " \o d \o "tics nomirror ", "set " \o d \o "label 'L'\n",
          "set " \o d \o "range [0:11]\n", "set logscale " \o d \o "\n",
          "set grid " \o d \o "tics\n", "set grid m" \o d \o "tics\n">>

\* whether the record holds what part k is written for
AxisPartSet(p, k) ==
    CASE k = 1 -> TRUE
      [] k = 2 -> IsSome(p.label)
      [] k = 3 -> IsSome(p.range)
      [] k = 4 -> p.logarithmic
      [] k = 5 -> ~p.major_grid.hidden
      [] k = 6 -> ~p.minor_grid.hidden

PartPlaces(o, a, k) == {i \in 1..Len(o) : o[i] = AxisParts(a)[k]}

\* C24: a visible axis writes its tics directive always, the tic list right
\* after it when one is set, then label, range, log scale, major gridline and
\* minor gridline, each exactly when set and in that order.
C24_VisibleAxisOrder ==
    Compiled =>
        \A a \in Populated(fig) :
            LET p == Unwrap(fig.axes[a])
            IN  ~p.hidden =>
                    /\ \A k \in 1..6 :
                           Cardinality(PartPlaces(out, a, k))
                               = IF AxisPartSet(p, k) THEN 1 ELSE 0
                    /\ \A k, l \in 1..6 :
                           k < l => \A i \in PartPlaces(out, a, k),
                                       j \in PartPlaces(out, a, l) : i < j
                    /\ \A t \in PartPlaces(out, a, 1) :
                           IF IsSome(p.tics)
                           THEN out[t + 1] = "('a' 1, 'b' 2)" /\ out[t + 2] = "\n"
                           ELSE out[t + 1] = "\n"

\* C24 witness: a compiled Figure whose visible axis holds tic labels, a
\* label, a range, log scale and both gridlines shown
C24_Witness ==
    /\ Compiled
    /\ \E a \in Populated(fig) :
           LET p == Unwrap(fig.axes[a])
           IN  /\ ~p.hidden /\ IsSome(p.tics)
               /\ \A k \in 1..6 : AxisPartSet(p, k)

\* the closures that call show on the gridline they are given
ShowSteps == {"show", "store_show"}

\* the gridlines of an axis before a call: those of its record, hidden
\* without one
GridHidden(f, a, which) ==
    IF f.axes[a] = None THEN TRUE
    ELSE IF which = "major" THEN Unwrap(f.axes[a]).major_grid.hidden
         ELSE Unwrap(f.axes[a]).minor_grid.hidden

\* C30: the gridlines of an axis start hidden and write nothing; a
\* configure_major_grid (configure_minor_grid) whose closure shows the
\* gridline leaves it shown and the other gridline as it was, and a visible
\* axis writes "set grid <axis>tics" ("set grid m<axis>tics") exactly for a
\* shown gridline.
C30_GridlinesShownOnRequest ==
    [][/\ (call'.op = "configure_axis" /\ ~call'.panicked) =>
              LET a == call'.args.axis
                  st == call'.args.step
              IN  /\ GridHidden(fig', a, "major") =
                         IF st.op = "configure_major_grid" /\ st.gstep \in ShowSteps
                         THEN FALSE
                         ELSE IF st.op = "configure_major_grid"
                              THEN GridHidden(fig', a, "major")
                              ELSE GridHidden(fig, a, "major")
                  /\ GridHidden(fig', a, "minor") =
                         IF st.op = "configure_minor_grid" /\ st.gstep \in ShowSteps
                         THEN FALSE
                         ELSE IF st.op = "configure_minor_grid"
                              THEN GridHidden(fig', a, "minor")
                              ELSE GridHidden(fig, a, "minor")
       /\ out' # <<>> =>
              \A a \in Populated(fig') :
                  ~Unwrap(fig'.axes[a]).hidden =>
                      /\ Count(out', AxisParts(a)[5]) = B2N(~GridHidden(fig', a, "major"))
                      /\ Count(out', AxisParts(a)[6]) = B2N(~GridHidden(fig', a, "minor"))
      ]_vars

\* the clauses of a legend line over the inputs of the legend
\* specification, in the order of the claim
KeyParts ==
    << {"inside top right ", "outside bottom left "},
       {"horizontal", "vertical"},
       {"Left", "Right"},
       {"noreverse", "reverse"},
       {"title 'K' "},
       {"box "} >>

\* whether the record holds what clause k is written for
KeyPartSet(k, i) ==
    CASE i = 1 -> IsSome(k.position)
      [] i = 2 -> IsSome(k.stacked)
      [] i = 3 -> IsSome(k.justification)
      [] i = 4 -> IsSome(k.order)
      [] i = 5 -> IsSome(k.title)
      [] i = 6 -> k.boxed

KeyPlaces(o, i) == {j \in 1..Len(o) : o[j] \in KeyParts[i]}

\* where the legend line ends: the first newline after its start
LineEnd(o, start) ==
    CHOOSE e \in (start + 1)..Len(o) :
        o[e] = "\n" /\ \A j \in (start + 1)..(e - 1) : o[j] # "\n"

\* C25: a hidden legend is the one line "set key off" whatever else it
\* holds; a visible one is one line with position, stacking, justification,
\* ordering, title and box, each exactly when set and in that order, closed
\* by one newline.
C25_LegendLine ==
    (Compiled /\ IsSome(fig.key)) =>
        LET k == Unwrap(fig.key)
        IN  IF k.hidden
            THEN /\ Count(out, "set key off\n") = 1
                 /\ Count(out, "set key on ") = 0
                 /\ Count(out, " ") = 0
                 /\ \A i \in 1..6 : KeyPlaces(out, i) = {}
            ELSE /\ Count(out, "set key off\n") = 0
                 /\ Count(out, "set key on ") = 1
                 /\ \A i \in 1..6 :
                        Cardinality(KeyPlaces(out, i)) = B2N(KeyPartSet(k, i))
                 /\ \A i, l \in 1..6 :
                        i < l => \A a \in KeyPlaces(out, i), b \in KeyPlaces(out, l) : a < b
                 /\ \A start \in {j \in 1..Len(out) : out[j] = "set key on "} :
                        LET e == LineEnd(out, start)
                        IN  /\ \A i \in 1..6 : \A j \in KeyPlaces(out, i) :
                                   start < j /\ j < e
                            /\ \A j \in (start + 1)..(e - 1) :
                                   \/ \E i \in 1..6 : j \in KeyPlaces(out, i)
                                   \/ out[j] = " " /\ \E i \in 2..4 : (j - 1) \in KeyPlaces(out, i)
                            /\ out[e + 1] # "\n"

\* C25 witness: a compiled Figure whose visible legend has every clause set
C25_Witness ==
    /\ Compiled /\ IsSome(fig.key)
    /\ ~Unwrap(fig.key).hidden
    /\ \A i \in 1..6 : KeyPartSet(Unwrap(fig.key), i)

\* the clauses of a curve fragment over the inputs of the style
\* specification, in the order of the claim
CurveParts ==
    << {"axes x1y2 "}, {"with lines ", "with points "}, {"lt Solid ", "lt Dash "},
       {"lw 2 "}, {"lc rgb 'red' "}, {"pt Circle "}, {"ps 2 "}, {"title '", "notitle"} >>

\* whether the record holds what clause k is written for
CurvePartSet(p, k) ==
    CASE k \in {2, 3, 8} -> TRUE
      [] k = 1 -> IsSome(p.axes)
      [] k = 4 -> IsSome(p.line_width)
      [] k = 5 -> IsSome(p.color)
      [] k = 6 -> IsSome(p.point_type)
      [] k = 7 -> IsSome(p.point_size)

CurvePlaces(f, k) == {i \in 1..Len(f) : f[i] \in CurveParts[k]}

\* the fragment ends with title '<label>' for a label, with notitle without
EndsWithTitleChoice(f, label) ==
    IF IsSome(label)
    THEN /\ Len(f) >= 3
         /\ SubSeq(f, Len(f) - 2, Len(f)) = <<"title '", Unwrap(label), "'">>
         /\ Count(f, "title '") = 1 /\ Count(f, "notitle") = 0
    ELSE /\ Len(f) >= 1
         /\ f[Len(f)] = "notitle"
         /\ Count(f, "notitle") = 1 /\ Count(f, "title '") = 0

\* C26: a curve fragment has the axes clause (if set), the plot kind, the
\* line type, then line width, color, point type and point size, each if
\* set, in that order; the fragment of every kind ends with title '<label>'
\* when a label is set and with notitle when none is.
C26_StyleFragmentOrder ==
    call.op = "properties_script" =>
        LET p == call.args.p
            f == call.args.fragment
        IN  /\ EndsWithTitleChoice(f, p.label)
            /\ call.args.kind = "curve" =>
                   /\ \A k \in 1..8 :
                          Cardinality(CurvePlaces(f, k)) = B2N(CurvePartSet(p, k))
                   /\ \A k, l \in 1..8 :
                          k < l => \A i \in CurvePlaces(f, k), j \in CurvePlaces(f, l) : i < j
                   /\ f[1] \in (IF IsSome(p.axes) THEN CurveParts[1] ELSE CurveParts[2])

\* C26 witness: the fragment of a curve with every setting made
C26_Witness ==
    /\ call.op = "properties_script" /\ call.args.kind = "curve"
    /\ \A k \in 1..8 : CurvePartSet(call.args.p, k)
    /\ IsSome(call.args.p.label)
    /\ Len(call.args.fragment) = 10

\* the length of the shortest of the sequences
RECURSIVE Shortest(_)
Shortest(cols) ==
    IF Len(cols) = 1 THEN Len(cols[1])
    ELSE LET rest == Shortest(Tail(cols))
         IN  IF Len(cols[1]) < rest THEN Len(cols[1]) ELSE rest

\* C28: a series whose sequences have unequal lengths is registered without
\* failing; its matrix has as many rows as the shortest sequence, holding
\* the first rows of every sequence, and its plot clause declares that many
\* records.
C28_TruncatesToShortest ==
    /\ call.op \in PlotOps =>
           LET cols == GivenColumns(call)
               factors == GivenFactors(call)
               N == Shortest(cols)
               m == LastSeries.data
           IN  /\ ~call.panicked
               /\ fig.plots # <<>>
               /\ m.nrows = N
               /\ Len(m.data) = N * Len(cols)
               /\ \A r \in 1..N, c \in 1..Len(cols) :
                      Cell(m, r, c) = cols[c][r] * factors[c]
    /\ (Compiled /\ NonEmpty(fig.plots) # <<>>) =>
           /\ Len(ClauseStarts(PlotLine(out))) = 1
           /\ Clause(PlotLine(out), 1)[1] = RecordToken(NonEmpty(fig.plots)[1].data.nrows)

\* C28 witness: error bars with MaxRows x coordinates and one sample fewer
\* in the other sequences
C28_Witness ==
    /\ Registered /\ call.op = "plot_errorbar"
    /\ Len(call.args.data.x) = MaxRows
    /\ Len(call.args.data.y) = MaxRows - 1
    /\ LastSeries.data.nrows = MaxRows - 1
    /\ MaxRows - 1 >= 1

\* the fields of the record a setter call assigns
Touched(step) ==
    CASE step.op \in {"hide", "show"} -> {"hidden"}
      [] step.op = "label" -> {"label"}
      [] step.op = "range" -> {"hidden", "range"}
      [] step.op = "scale" -> {"hidden", "logarithmic"}
      [] step.op = "scale_factor" -> {"scale_factor"}
      [] step.op = "tick_labels" -> {"tics"}
      [] step.op = "configure_major_grid" -> {"major_grid"}
      [] step.op = "configure_minor_grid" -> {"minor_grid"}

\* C29: the first configure_axis of an axis stores the defaults as the
\* closure leaves them, a later one changes the stored record and keeps
\* what it does not set, and the slots of the other axes stay as they were.
C29_ConfigureAxisAccumulates ==
    [][call'.op = "configure_axis" =>
          LET a == call'.args.axis
              st == call'.args.step
              base == IF fig.axes[a] = None THEN AxisProperties_default
                      ELSE Unwrap(fig.axes[a])
          IN  /\ ~call'.panicked
              /\ fig'.axes[a] # None
              /\ Unwrap(fig'.axes[a]) = AxisStep(base, st)
              /\ \A field \in (DOMAIN base) \ Touched(st) :
                     Unwrap(fig'.axes[a])[field] = base[field]
              /\ \A b \in Axis \ {a} : fig'.axes[b] = fig.axes[b]
      ]_vars

\* C29 witness: an axis hidden after its factor was set keeps the factor,
\* next to another populated axis and two axes with no record
C29_Witness ==
    /\ call.op = "configure_axis" /\ call.args.step.op = "hide"
    /\ Unwrap(fig.axes[call.args.axis]).hidden
    /\ Unwrap(fig.axes[call.args.axis]).scale_factor = 2
    /\ Cardinality(Populated(fig)) = 2

====
